---- MODULE Spec2Model ----
(***************************************************************************)
(* Model of the OTA update engine of src/ota.py: the swap orchestrator     *)
(* (OTA.stage_and_swap), the installed-version record writer               *)
(* (OTA._write_state), boot recovery (OTA._startup_cleanup) and the        *)
(* top-level sequencing of OTA.update_if_available.                        *)
(*                                                                         *)
(* The filesystem is three maps from relative path to file content: the    *)
(* live tree, stage_dir and backup_dir.  A relative path is a sequence of  *)
(* its '/'-separated segments.  Every os.rename / os.remove of the code is *)
(* one step, so that a power loss (Crash) or an OSError (the *Fault        *)
(* actions) can fall between any two of them.  version.json and            *)
(* version.json.tmp are owned by the engine and are not application paths. *)
(* stage_dir and backup_dir also record the directories made for nested    *)
(* paths.                                                                  *)
(*                                                                         *)
(* Specifications: Spec (stage_and_swap, power loss, boot recovery),       *)
(* SpecUpdate (update_if_available: gates, downloads, swap), SpecBoot      *)
(* (construction over any content of stage_dir and backup_dir), SpecPath   *)
(* (the path guard on strings) and SpecGate (the storage gate on numbers). *)
(***************************************************************************)
EXTENDS Integers, Sequences, FiniteSets, TLC

\* ------------------------------------------------------------------
\* Bounds

MaxCrashes == 1      \* power losses per behaviour
MaxFaults == 1       \* OSErrors the code swallows (rollback, restore, sweep) per behaviour
MaxCalls == 1        \* direct stage_and_swap calls per behaviour
MaxUpdates == 2      \* update_if_available calls per behaviour
MaxRelLen == 4       \* characters of a path handed to _normalize_path
MaxEntries == 3      \* candidates of a tree handed to the storage gate
MaxFree == 12        \* bytes of free storage _storage_free reports
\* largest http_retries of a call of _get
MaxRetries == 3
\* largest number of pieces in the body of a delta
MaxPieces == 3

\* ------------------------------------------------------------------
\* Values

None == <<>>            \* Python None, also "no such path"
Absent == "absent"      \* no file at this path
Partial == <<"partial">>  \* a file whose JSON text is not completely written

Paths == {<<"a">>, <<"lib", "b">>}
Content == {"o", "n", "m"}
Slot == Content \cup {Absent}

EmptyDir == [p \in Paths |-> Absent]

\* stage_dir and backup_dir also keep the directories made for nested paths:
\* a tree maps every file path and every directory path to what is there
Dirs == {<<"lib">>}
Dir == "dir"
Nodes == Paths \cup Dirs
EmptyTree == [n \in Nodes |-> Absent]

\* the content of version.json: json.dump({"ref": ref, "commit": commit})
Record(ref, commit) == <<ref, commit>>

Files(dir) == {p \in Paths : dir[p] # Absent}

\* os.listdir of a tree's top directory, files and directories alike
Listed(tree) == {n \in Nodes : Len(n) = 1 /\ tree[n] # Absent}

\* str.startswith(prefix + "/") on normalised paths: prefix is a proper
\* segment prefix of path
StartsWithDir(path, prefix) ==
    /\ Len(prefix) < Len(path)
    /\ SubSeq(path, 1, Len(prefix)) = prefix

\* ensure_dirs(<tree>/<path>.rpartition("/")[0]): the directories above path
EnsureDirs(tree, path) ==
    [n \in Nodes |-> IF n \in Dirs /\ StartsWithDir(path, n) THEN Dir ELSE tree[n]]

\* _rmtree, the os.rmdir attempts on the directories of the top level: a
\* directory that still has an entry stays (the OSError is swallowed)
Rmdirs(tree) ==
    [n \in Nodes |->
        IF n \in Dirs /\ ~ \E q \in Nodes : tree[q] # Absent /\ StartsWithDir(q, n)
          THEN Absent ELSE tree[n]]

\* files directly under the top directory of a tree
TopFiles(tree) == {p \in Files(tree) : Len(p) = 1}

\* OTA._is_permitted
\* a filter that applies the allow list only
IsPermitted_no_ignore(c, path) ==
    (c.allow # {}) =>
        (path \in c.allow \/ \E a \in c.allow : StartsWithDir(path, a))

IsPermitted(c, path) ==
    /\ (c.allow # {}) =>
          (path \in c.allow \/ \E a \in c.allow : StartsWithDir(path, a))
    /\ (c.ignore # {}) =>
          /\ path \notin c.ignore
          /\ ~ \E i \in c.ignore : StartsWithDir(path, i)

\* the match of one file against delete_patterns (stage_and_swap, sweep)
MatchesPattern(c, rel) ==
    \E p \in c.delete_patterns : rel = p \/ StartsWithDir(rel, p)

\* _walk: the files of a directory are listed before those of its
\* sub-directories; the order inside one directory is that of os.listdir
NextInWalk(S) == {p \in S : \A q \in S : Len(q) >= Len(p)}

\* configurations: allow / ignore filters, delete_patterns, and whether
\* os.listdir("") lists the current directory (MicroPython) or raises
Configs ==
    { [allow |-> {}, ignore |-> {}, delete_patterns |-> {}, listdir_root |-> TRUE],
      [allow |-> {}, ignore |-> {}, delete_patterns |-> {<<"lib">>}, listdir_root |-> TRUE],
      [allow |-> {}, ignore |-> {}, delete_patterns |-> {<<"lib">>}, listdir_root |-> FALSE],
      [allow |-> {<<"a">>, <<"lib">>}, ignore |-> {<<"lib", "b">>}, delete_patterns |-> {}, listdir_root |-> TRUE] }

\* (ref, commit) pairs a caller passes to stage_and_swap
CallTargets == {<<"v2", "c2">>, <<"v1", "c1">>}

NoArgs == [ref |-> "", commit |-> "", deletes |-> {}]

\* ------------------------------------------------------------------
\* Targets of update_if_available

\* the digest a tree entry or a manifest entry carries for a content
BlobSha1(c) == <<"sha1", c>>
Sha256(c) == <<"sha256", c>>
Crc32(c) == <<"crc32", c>>
Size(c) == IF c = "o" THEN 1 ELSE 2

\* a target: the resolved descriptor and what it lists for each path.
\* check[p] is the digest the listing carries for p: "sha" (blob SHA-1 of a
\* tree entry, sha256 of a manifest entry), "crc" (crc32 only) or "none"
Target(mode, ref, commit, files, check, deletes) ==
    [mode |-> mode, ref |-> ref, commit |-> commit, files |-> files,
     check |-> check, deletes |-> deletes, invalid |-> FALSE]

\* the same listing with one more entry, whose path _normalize_path rejects
WithInvalidPath(t) == [t EXCEPT !.invalid = TRUE]

AllSha == [p \in Paths |-> "sha"]

Targets ==
    { Target("branch", "v1", "c1", [EmptyDir EXCEPT ![<<"a">>] = "n", ![<<"lib", "b">>] = "n"], AllSha, {}),
      Target("branch", "v1", "c2", [EmptyDir EXCEPT ![<<"lib", "b">>] = "m"], AllSha, {}),
      Target("tag", "v2", "c2", [EmptyDir EXCEPT ![<<"a">>] = "m"], AllSha, {<<"lib", "b">>}),
      Target("tag", "v2", "c2", [EmptyDir EXCEPT ![<<"a">>] = "m"],
             [AllSha EXCEPT ![<<"a">>] = "crc"], {}),
      Target("tag", "v2", "c2", [EmptyDir EXCEPT ![<<"a">>] = "m"],
             [AllSha EXCEPT ![<<"a">>] = "none"], {}),
      WithInvalidPath(Target("branch", "v1", "c2", [EmptyDir EXCEPT ![<<"lib", "b">>] = "m"], AllSha, {})),
      WithInvalidPath(Target("tag", "v2", "c2", [EmptyDir EXCEPT ![<<"a">>] = "m"], AllSha, {})) }

NoTarget == Target("", "", "", EmptyDir, AllSha, {})

\* cfg["manifest_key"]: not set, or the shared secret
NoKey == ""
Keys == {NoKey, "k"}

\* _hmac_sha256_hex(key, data) and the canonical JSON of a manifest
\* without its signature
Hmac(key, data) == <<"hmac", key, data>>
Canonical(t) == <<t.ref, t.commit, t.check[<<"a">>]>>

\* the "signature" member a served manifest can carry: none, the HMAC under
\* the device's secret, the HMAC under another secret
Signatures(t) == {None, Hmac("k", Canonical(t)), Hmac("x", Canonical(t))}

\* _storage_free(): bytes, or NoFree when os.statvfs is not available
NoFree == -1
FreeValues == {3, 8}

\* the download in progress: the path, the bytes the response delivers,
\* what <path>.tmp holds ("" once opened for writing) and whether it was
\* flushed and fsynced
NoDl == [path |-> <<>>, got |-> Absent, tmp |-> Absent, synced |-> FALSE]

\* no call of _perform_reset yet in this update_if_available
NoReset == ""

NoUpd ==
    [force |-> FALSE, key |-> NoKey, target |-> NoTarget, sig |-> None,
     free |-> NoFree, cands |-> {}, n |-> 0, dl |-> NoDl,
     hook |-> FALSE, reset |-> NoReset]

\* ------------------------------------------------------------------
\* State

VARIABLES
    cfg,              \* self.cfg with the derived allow / ignore tuples
    live,             \* application files under the device root
    stage,            \* files under stage_dir
    backup,           \* files under backup_dir
    version,          \* version.json: None, Partial or <<ref, commit>>
    vtmp,             \* version.json.tmp: None, Partial or <<ref, commit>>
    errfile,          \* ota_error.json: the list of errors last written
    pc,               \* position of the single engine task
    args,             \* arguments of the running stage_and_swap call
    applied,          \* the operation log: pairs <<target, backup>>
    walk,             \* paths the running loop has still to visit
    cur,              \* the file between its backup rename and its promotion
    staged_now,       \* the set computed at the start of the sweep
    rb,               \* entries of applied the rollback has still to undo
    rollback_errors,  \* errors collected by the rollback
    raising,          \* an exception is propagating out of stage_and_swap
    outcome,          \* how the last call or boot ended
    pre,              \* live tree when the running swap was called
    preStage,         \* stage_dir when the running swap was called
    preVersion,       \* version.json when the running swap was called
    promoted,         \* paths whose staged file this swap renamed into the live tree
    hist,             \* order of renames, syncs and the record write in this swap
    crashAt,          \* where the last power loss fell: "none", "pre", "post"
    ncrash, nfault, ncalls,
    upd,              \* the running update_if_available call: force, target, candidates
    boot0,            \* live tree and backup_dir as the running construction found them,
                      \* the trees as the first construction since the last completed one
                      \* found them, and whether a construction was cut short
    input,            \* argument of the function under study, in the function specifications
    result            \* what that function returned or raised

fs == <<live, stage, backup, version, vtmp, errfile>>
task == <<pc, args, applied, walk, cur, staged_now, rb, rollback_errors, raising>>
ghost == <<pre, preStage, preVersion, promoted, hist, crashAt>>
count == <<ncrash, nfault, ncalls>>
env == <<cfg, upd>>
aux == <<boot0, input, result>>
vars == <<env, fs, task, outcome, ghost, count, aux>>

NoHist == [dirty |-> FALSE, committed |-> FALSE, recWritten |-> FALSE,
           syncedBefore |-> FALSE, postSync |-> FALSE, lateRename |-> FALSE,
           unfed |-> 0]

\* self._feed_watchdog()
Fed(h) == [h EXCEPT !.unfed = 0]

\* a pass of one of the loops of the try block of stage_and_swap that has
\* renamed a file ends; unfed counts such passes since the last feed
Iterated(h) == [h EXCEPT !.unfed = h.unfed + 1]

\* a rename that moves a file into or out of the live tree
RenamedLive(h) ==
    [h EXCEPT !.dirty = TRUE, !.lateRename = h.lateRename \/ h.recWritten]

\* a sync that does not happen
SyncFs_missing(h) == h

\* os.sync()
SyncFs(h) == [h EXCEPT !.dirty = FALSE, !.postSync = h.recWritten]

\* os.rename(VERSION_FILE + ".tmp", VERSION_FILE)
RenamedRecord(h) ==
    [h EXCEPT !.recWritten = TRUE, !.syncedBefore = ~h.dirty]

\* no call is running, nothing is logged
InitRest ==
    /\ vtmp = None
    /\ errfile = <<>>
    /\ args = NoArgs
    /\ applied = <<>>
    /\ walk = {}
    /\ cur = None
    /\ staged_now = {}
    /\ rb = 0
    /\ rollback_errors = <<>>
    /\ raising = FALSE
    /\ pre = live
    /\ preStage = stage
    /\ preVersion = version
    /\ promoted = {}
    /\ hist = NoHist
    /\ crashAt = "none"
    /\ ncrash = 0
    /\ nfault = 0
    /\ ncalls = 0
    /\ boot0 = [live |-> live, backup |-> backup, interrupted |-> FALSE,
                first |-> [live |-> live, stage |-> stage, backup |-> backup]]

\* no function is under study
NoCall ==
    /\ input = None
    /\ result = None

InitFs ==
    /\ cfg \in Configs
    /\ live \in [Paths -> {Absent, "o"}]
    /\ stage = EmptyTree
    /\ backup = EmptyTree
    /\ version \in {None, Record("v1", "c1")}
    /\ pc = "idle"
    /\ outcome = "none"
    /\ InitRest
    /\ NoCall

\* the state after OTA construction
Init ==
    /\ InitFs
    /\ upd = NoUpd

\* the same, with cfg["force"] set or not
InitUpdate ==
    /\ InitFs
    /\ upd \in {[NoUpd EXCEPT !.force = f, !.key = k] : f \in BOOLEAN, k \in Keys}

\* ------------------------------------------------------------------
\* Staging coordinator: the rename of a verified download into stage_dir

NewContent(k) == IF k = 0 THEN "n" ELSE "m"

StageFile(p) ==
    /\ pc = "idle"
    /\ ncalls < MaxCalls
    /\ stage[p] = Absent
    /\ stage' = [EnsureDirs(stage, p) EXCEPT ![p] = NewContent(ncalls)]
    /\ UNCHANGED <<aux, env, live, backup, version, vtmp, errfile, task, outcome, ghost, count>>

\* ------------------------------------------------------------------
\* OTA.stage_and_swap

\* entry of stage_and_swap(applied_ref, applied_commit, deletes)
BeginSwap(ref, commit, deletes) ==
    /\ args' = [ref |-> ref, commit |-> commit, deletes |-> deletes]
    /\ applied' = <<>>
    /\ walk' = Files(stage)
    /\ cur' = None
    /\ staged_now' = {}
    /\ rb' = 0
    /\ rollback_errors' = <<>>
    /\ raising' = FALSE
    /\ pc' = "promote"
    /\ outcome' = "running"
    /\ pre' = live
    /\ preStage' = stage
    /\ preVersion' = version
    /\ promoted' = {}
    /\ hist' = NoHist
    /\ crashAt' = "none"
    /\ ncalls' = ncalls + 1

CallStageAndSwap(t, deletes) ==
    /\ pc = "idle"
    /\ ncalls < MaxCalls
    /\ BeginSwap(t[1], t[2], deletes)
    /\ UNCHANGED <<aux, env, fs, ncrash, nfault>>

\* the except clause is entered with the operation log as it stands
EnterRollback(log) ==
    /\ applied' = log
    /\ rb' = Len(log)
    /\ pc' = "rollback"
    /\ cur' = None

\* a staged file the filters do not permit is left in stage_dir
PromoteSkip(p) ==
    /\ pc = "promote"
    /\ p \in NextInWalk(walk)
    /\ ~IsPermitted(cfg, p)
    /\ walk' = walk \ {p}
    /\ UNCHANGED <<aux, env, fs, pc, args, applied, cur, staged_now, rb, rollback_errors,
                   raising, outcome, ghost, count>>

\* the target exists: os.rename(target, backup), sync, log (target, backup)
PromoteBackup(p) ==
    /\ pc = "promote"
    /\ p \in NextInWalk(walk)
    /\ IsPermitted(cfg, p)
    /\ live[p] # Absent
    /\ backup' = [EnsureDirs(backup, p) EXCEPT ![p] = live[p]]
    /\ live' = [live EXCEPT ![p] = Absent]
    /\ hist' = SyncFs(RenamedLive(hist))
    /\ applied' = Append(applied, <<p, p>>)
    /\ cur' = p
    /\ pc' = "promote_mv"
    /\ UNCHANGED <<aux, env, stage, version, vtmp, errfile, args, walk, staged_now, rb,
                   rollback_errors, raising, outcome, pre, preStage, preVersion,
                   promoted, crashAt, count>>

PromoteBackupFault(p) ==
    /\ pc = "promote"
    /\ p \in NextInWalk(walk)
    /\ IsPermitted(cfg, p)
    /\ live[p] # Absent
    /\ backup' = EnsureDirs(backup, p)
    /\ EnterRollback(applied)
    /\ UNCHANGED <<aux, env, live, stage, version, vtmp, errfile, args, walk, staged_now,
                   rollback_errors, raising, outcome, ghost, count>>

\* os.rename(stage_path, target), sync, self._feed_watchdog()
MoveStaged(p) ==
    /\ live' = [live EXCEPT ![p] = stage[p]]
    /\ stage' = [stage EXCEPT ![p] = Absent]
    /\ hist' = Fed(Iterated(SyncFs(RenamedLive(hist))))
    /\ promoted' = promoted \cup {p}
    /\ walk' = walk \ {p}
    /\ cur' = None
    /\ pc' = "promote"

\* the target does not exist: log (target, None), then promote
PromoteNew(p) ==
    /\ pc = "promote"
    /\ p \in NextInWalk(walk)
    /\ IsPermitted(cfg, p)
    /\ live[p] = Absent
    /\ applied' = Append(applied, <<p, None>>)
    /\ backup' = EnsureDirs(backup, p)
    /\ MoveStaged(p)
    /\ UNCHANGED <<aux, env, version, vtmp, errfile, args, staged_now, rb,
                   rollback_errors, raising, outcome, pre, preStage, preVersion,
                   crashAt, count>>

PromoteNewFault(p) ==
    /\ pc = "promote"
    /\ p \in NextInWalk(walk)
    /\ IsPermitted(cfg, p)
    /\ live[p] = Absent
    /\ backup' = EnsureDirs(backup, p)
    /\ EnterRollback(Append(applied, <<p, None>>))
    /\ UNCHANGED <<aux, env, live, stage, version, vtmp, errfile, args, walk, staged_now,
                   rollback_errors, raising, outcome, ghost, count>>

PromoteMove ==
    /\ pc = "promote_mv"
    /\ MoveStaged(cur)
    /\ UNCHANGED <<aux, env, backup, version, vtmp, errfile, args, applied, staged_now, rb,
                   rollback_errors, raising, outcome, pre, preStage, preVersion,
                   crashAt, count>>

PromoteMoveFault ==
    /\ pc = "promote_mv"
    /\ EnterRollback(applied)
    /\ UNCHANGED <<aux, env, fs, args, walk, staged_now, rollback_errors, raising, outcome,
                   ghost, count>>

PromoteDone ==
    /\ pc = "promote"
    /\ walk = {}
    /\ pc' = "deletes"
    /\ walk' = args.deletes
    /\ UNCHANGED <<aux, env, fs, args, applied, cur, staged_now, rb, rollback_errors,
                   raising, outcome, ghost, count>>

\* deletions from the manifest
DeleteSkip(p) ==
    /\ pc = "deletes"
    /\ p \in walk
    /\ ~IsPermitted(cfg, p) \/ live[p] = Absent
    /\ walk' = walk \ {p}
    /\ UNCHANGED <<aux, env, fs, pc, args, applied, cur, staged_now, rb, rollback_errors,
                   raising, outcome, ghost, count>>

\* os.rename(rel, bpath), sync, log (None, bpath); the pass ends without a
\* watchdog feed
MoveToBackup(p) ==
    /\ backup' = [EnsureDirs(backup, p) EXCEPT ![p] = live[p]]
    /\ live' = [live EXCEPT ![p] = Absent]
    /\ hist' = Iterated(SyncFs(RenamedLive(hist)))
    /\ applied' = Append(applied, <<None, p>>)
    /\ walk' = walk \ {p}

DeleteBackup(p) ==
    /\ pc = "deletes"
    /\ p \in walk
    /\ IsPermitted(cfg, p)
    /\ live[p] # Absent
    /\ MoveToBackup(p)
    /\ UNCHANGED <<aux, env, stage, version, vtmp, errfile, pc, args, cur, staged_now, rb,
                   rollback_errors, raising, outcome, pre, preStage, preVersion,
                   promoted, crashAt, count>>

DeleteBackupFault(p) ==
    /\ pc = "deletes"
    /\ p \in walk
    /\ IsPermitted(cfg, p)
    /\ live[p] # Absent
    /\ backup' = EnsureDirs(backup, p)
    /\ EnterRollback(applied)
    /\ UNCHANGED <<aux, env, live, stage, version, vtmp, errfile, args, walk, staged_now,
                   rollback_errors, raising, outcome, ghost, count>>

\* the files the sweep takes for this update's own: stage_dir as it is now
StagedNow == {p \in Files(stage) : IsPermitted(cfg, p)}

DeletesDone ==
    /\ pc = "deletes"
    /\ walk = {}
    /\ IF cfg.delete_patterns = {}
         THEN /\ pc' = "ws"
              /\ UNCHANGED <<aux, walk, staged_now>>
         ELSE /\ pc' = "sweep"
              /\ staged_now' = StagedNow
              /\ walk' = IF cfg.listdir_root THEN Files(live) ELSE {}
    /\ UNCHANGED <<aux, env, fs, args, applied, cur, rb, rollback_errors, raising, outcome,
                   ghost, count>>

\* the sweep moves this file to backup_dir
Swept(p) ==
    /\ IsPermitted(cfg, p)
    /\ MatchesPattern(cfg, p)
    /\ p \notin staged_now
    /\ live[p] # Absent

SweepSkip(p) ==
    /\ pc = "sweep"
    /\ p \in NextInWalk(walk)
    /\ ~Swept(p)
    /\ walk' = walk \ {p}
    /\ UNCHANGED <<aux, env, fs, pc, args, applied, cur, staged_now, rb, rollback_errors,
                   raising, outcome, ghost, count>>

SweepBackup(p) ==
    /\ pc = "sweep"
    /\ p \in NextInWalk(walk)
    /\ Swept(p)
    /\ MoveToBackup(p)
    /\ UNCHANGED <<aux, env, stage, version, vtmp, errfile, pc, args, cur, staged_now, rb,
                   rollback_errors, raising, outcome, pre, preStage, preVersion,
                   promoted, crashAt, count>>

\* an OSError of the sweep's rename is swallowed
SweepBackupFault(p) ==
    /\ pc = "sweep"
    /\ p \in NextInWalk(walk)
    /\ Swept(p)
    /\ nfault < MaxFaults
    /\ nfault' = nfault + 1
    /\ backup' = EnsureDirs(backup, p)
    /\ walk' = walk \ {p}
    /\ UNCHANGED <<aux, env, live, stage, version, vtmp, errfile, pc, args, applied, cur,
                   staged_now, rb, rollback_errors, raising, outcome, ghost, ncrash,
                   ncalls>>

SweepDone ==
    /\ pc = "sweep"
    /\ walk = {}
    /\ pc' = "ws"
    /\ UNCHANGED <<aux, env, fs, args, applied, walk, cur, staged_now, rb, rollback_errors,
                   raising, outcome, ghost, count>>

\* ------------------------------------------------------------------
\* OTA._write_state, called as the last step of the try block

NewRecord == Record(args.ref, args.commit)

\* the record already names this ref and commit: nothing is written
WsSkip ==
    /\ pc = "ws"
    /\ version = NewRecord
    /\ hist' = [hist EXCEPT !.committed = TRUE]
    /\ pc' = "ws_sync"
    /\ UNCHANGED <<aux, env, fs, args, applied, walk, cur, staged_now, rb, rollback_errors,
                   raising, outcome, pre, preStage, preVersion, promoted, crashAt, count>>

\* the record opened for writing under its final name
WsOpen_in_place ==
    /\ pc = "ws"
    /\ version # NewRecord
    /\ version' = Partial
    /\ vtmp' = Partial
    /\ pc' = "ws_dump"
    /\ UNCHANGED <<aux, env, live, stage, backup, errfile, args, applied, walk, cur,
                   staged_now, rb, rollback_errors, raising, outcome, ghost, count>>

\* open(tmp, "w") creates or truncates version.json.tmp
WsOpen ==
    /\ pc = "ws"
    /\ version # NewRecord
    /\ vtmp' = Partial
    /\ pc' = "ws_dump"
    /\ UNCHANGED <<aux, env, live, stage, backup, version, errfile, args, applied, walk, cur,
                   staged_now, rb, rollback_errors, raising, outcome, ghost, count>>

WsOpenFault ==
    /\ pc = "ws"
    /\ version # NewRecord
    /\ EnterRollback(applied)
    /\ UNCHANGED <<aux, env, fs, args, walk, staged_now, rollback_errors, raising, outcome,
                   ghost, count>>

\* json.dump, flush, fsync: the temporary file holds the whole record
WsDump ==
    /\ pc = "ws_dump"
    /\ vtmp' = NewRecord
    /\ pc' = "ws_rename"
    /\ UNCHANGED <<aux, env, live, stage, backup, version, errfile, args, applied, walk, cur,
                   staged_now, rb, rollback_errors, raising, outcome, ghost, count>>

WsDumpFault ==
    /\ pc = "ws_dump"
    /\ EnterRollback(applied)
    /\ UNCHANGED <<aux, env, fs, args, walk, staged_now, rollback_errors, raising, outcome,
                   ghost, count>>

\* os.rename(tmp, VERSION_FILE)
WsRename ==
    /\ pc = "ws_rename"
    /\ version' = vtmp
    /\ vtmp' = None
    /\ hist' = [RenamedRecord(hist) EXCEPT !.committed = TRUE]
    /\ pc' = "ws_sync"
    /\ UNCHANGED <<aux, env, live, stage, backup, errfile, args, applied, walk, cur,
                   staged_now, rb, rollback_errors, raising, outcome, pre, preStage,
                   preVersion, promoted, crashAt, count>>

\* an error raised only after the rename has taken effect
WsRenameFault_late ==
    /\ pc = "ws_rename"
    /\ version' = vtmp
    /\ vtmp' = None
    /\ EnterRollback(applied)
    /\ UNCHANGED <<aux, env, live, stage, backup, errfile, args, walk, staged_now,
                   rollback_errors, raising, outcome, ghost, count>>

WsRenameFault ==
    /\ pc = "ws_rename"
    /\ EnterRollback(applied)
    /\ UNCHANGED <<aux, env, fs, args, walk, staged_now, rollback_errors, raising, outcome,
                   ghost, count>>

\* the os.sync() that follows _write_state; its failure is swallowed
WsSync ==
    /\ pc = "ws_sync"
    /\ hist' = SyncFs(hist)
    /\ pc' = "fin_stage"
    /\ UNCHANGED <<aux, env, fs, args, applied, walk, cur, staged_now, rb, rollback_errors,
                   raising, outcome, pre, preStage, preVersion, promoted, crashAt, count>>

\* ------------------------------------------------------------------
\* the except clause of stage_and_swap: undo the log in reverse

\* a loop that takes the log in the order of recording
RbEntry_forward == applied[Len(applied) + 1 - rb]

\* "for target, backup in reversed(applied)": rb entries are still to undo
RbEntry == applied[rb]

RbTarget == RbEntry[1]
RbBackup == RbEntry[2]

\* "if backup and _exists(backup)"
RbHasBackup == RbBackup # None /\ backup[RbBackup] # Absent
\* "if target and _exists(target)"
RbHasTarget == RbTarget # None /\ live[RbTarget] # Absent

\* nothing is done for an entry without an existing backup file
RollbackSkip ==
    /\ pc = "rollback"
    /\ rb > 0
    /\ ~RbHasBackup
    /\ rb' = rb - 1
    /\ UNCHANGED <<aux, env, fs, pc, args, applied, walk, cur, staged_now, rollback_errors,
                   raising, outcome, ghost, count>>

\* os.remove(target)
RollbackRemove ==
    /\ pc = "rollback"
    /\ rb > 0
    /\ RbHasBackup
    /\ RbHasTarget
    /\ live' = [live EXCEPT ![RbTarget] = Absent]
    /\ UNCHANGED <<aux, env, stage, backup, version, vtmp, errfile, task, outcome, ghost, count>>

\* os.rename(backup, target or backup)
RollbackRename ==
    /\ pc = "rollback"
    /\ rb > 0
    /\ RbHasBackup
    /\ ~RbHasTarget
    /\ IF RbTarget # None
         THEN /\ live' = [live EXCEPT ![RbTarget] = backup[RbBackup]]
              /\ backup' = [backup EXCEPT ![RbBackup] = Absent]
              /\ hist' = RenamedLive(hist)
         ELSE UNCHANGED <<aux, live, backup, hist>>
    /\ rb' = rb - 1
    /\ UNCHANGED <<aux, env, stage, version, vtmp, errfile, pc, args, applied, walk, cur,
                   staged_now, rollback_errors, raising, outcome, pre, preStage,
                   preVersion, promoted, crashAt, count>>

\* os.remove or os.rename raises and the except clause gives up the loop
RollbackFault_stops ==
    /\ pc = "rollback"
    /\ rb > 0
    /\ RbHasBackup
    /\ nfault < MaxFaults
    /\ nfault' = nfault + 1
    /\ rollback_errors' =
          Append(rollback_errors, IF RbTarget # None THEN RbTarget ELSE RbBackup)
    /\ rb' = 0
    /\ UNCHANGED <<aux, env, fs, pc, args, applied, walk, cur, staged_now, raising, outcome,
                   ghost, ncrash, ncalls>>

\* os.remove or os.rename raises: the error is collected, the loop goes on
RollbackFault ==
    /\ pc = "rollback"
    /\ rb > 0
    /\ RbHasBackup
    /\ nfault < MaxFaults
    /\ nfault' = nfault + 1
    /\ rollback_errors' =
          Append(rollback_errors, IF RbTarget # None THEN RbTarget ELSE RbBackup)
    /\ rb' = rb - 1
    /\ UNCHANGED <<aux, env, fs, pc, args, applied, walk, cur, staged_now, raising, outcome,
                   ghost, ncrash, ncalls>>

\* "if rollback_errors: self._write_error_state(rollback_errors)", then raise
RollbackDone ==
    /\ pc = "rollback"
    /\ rb = 0
    /\ errfile' = IF rollback_errors # <<>> THEN rollback_errors ELSE errfile
    /\ raising' = TRUE
    /\ pc' = "fin_stage"
    /\ UNCHANGED <<aux, env, live, stage, backup, version, vtmp, args, applied, walk, cur,
                   staged_now, rb, rollback_errors, outcome, ghost, count>>

\* ------------------------------------------------------------------
\* the finally clause: _rmtree(stage), _rmtree(backup), ensure_dirs

FinRmStage(p) ==
    /\ pc \in {"fin_stage", "fin_stage_sub"}
    /\ p \in NextInWalk(Files(stage))
    /\ pc = "fin_stage" => Len(p) = 1
    /\ stage' = [stage EXCEPT ![p] = Absent]
    /\ UNCHANGED <<aux, env, live, backup, version, vtmp, errfile, task, outcome, ghost, count>>

\* _rmtree(self.stage): os.rmdir of each directory of the top level
FinStageDirs ==
    /\ pc = "fin_stage"
    /\ TopFiles(stage) = {}
    /\ stage' = Rmdirs(stage)
    /\ pc' = "fin_stage_sub"
    /\ UNCHANGED <<aux, env, live, backup, version, vtmp, errfile, args, applied, walk, cur,
                   staged_now, rb, rollback_errors, raising, outcome, ghost, count>>

FinStageDone ==
    /\ pc = "fin_stage_sub"
    /\ Files(stage) = {}
    /\ pc' = "fin_backup"
    /\ UNCHANGED <<aux, env, fs, args, applied, walk, cur, staged_now, rb, rollback_errors,
                   raising, outcome, ghost, count>>

FinRmBackup(p) ==
    /\ pc \in {"fin_backup", "fin_backup_sub"}
    /\ p \in NextInWalk(Files(backup))
    /\ pc = "fin_backup" => Len(p) = 1
    /\ backup' = [backup EXCEPT ![p] = Absent]
    /\ UNCHANGED <<aux, env, live, stage, version, vtmp, errfile, task, outcome, ghost, count>>

\* _rmtree(self.backup): os.rmdir of each directory of the top level
FinBackupDirs ==
    /\ pc = "fin_backup"
    /\ TopFiles(backup) = {}
    /\ backup' = Rmdirs(backup)
    /\ pc' = "fin_backup_sub"
    /\ UNCHANGED <<aux, env, live, stage, version, vtmp, errfile, args, applied, walk, cur,
                   staged_now, rb, rollback_errors, raising, outcome, ghost, count>>

\* the caller goes on to the hook and the reset whatever stage_and_swap did
FinDone_finalize_on_raise ==
    /\ pc = "fin_backup_sub"
    /\ Files(backup) = {}
    /\ pc' = IF upd.n > 0 THEN "finalize" ELSE "idle"
    /\ outcome' = IF upd.n > 0 THEN "running" ELSE IF raising THEN "raised" ELSE "returned"
    /\ UNCHANGED <<aux, env, fs, args, applied, walk, cur, staged_now, rb, rollback_errors,
                   raising, ghost, count>>

\* stage_and_swap returns, or the exception reaches the caller; inside
\* update_if_available a normal return is followed by the hook and the reset
FinDone ==
    /\ pc = "fin_backup_sub"
    /\ Files(backup) = {}
    /\ pc' = IF upd.n > 0 /\ ~raising THEN "finalize" ELSE "idle"
    /\ outcome' = IF raising THEN "raised"
                  ELSE IF upd.n > 0 THEN "running" ELSE "returned"
    /\ UNCHANGED <<aux, env, fs, args, applied, walk, cur, staged_now, rb, rollback_errors,
                   raising, ghost, count>>

\* ------------------------------------------------------------------
\* Power loss, and OTA construction on the next boot (_startup_cleanup)

SwapPcs == {"promote", "promote_mv", "deletes", "sweep", "ws", "ws_dump", "ws_rename",
            "ws_sync", "rollback", "fin_stage", "fin_stage_sub", "fin_backup",
            "fin_backup_sub"}
BootPcs == {"boot", "restore", "boot_backup", "boot_backup_sub", "boot_stage",
            "boot_stage_sub"}

Crash ==
    /\ pc \in SwapPcs \cup BootPcs
    /\ ncrash < MaxCrashes
    /\ ncrash' = ncrash + 1
    /\ crashAt' = IF pc \in BootPcs THEN crashAt
                  ELSE IF hist.committed THEN "post" ELSE "pre"
    /\ pc' = "boot"
    /\ applied' = <<>>
    /\ walk' = {}
    /\ cur' = None
    /\ staged_now' = {}
    /\ rb' = 0
    /\ rollback_errors' = <<>>
    /\ raising' = FALSE
    /\ outcome' = "crashed"
    /\ boot0' = [boot0 EXCEPT !.interrupted = (pc \in BootPcs)]
    /\ UNCHANGED <<input, result, env, fs, args, pre, preStage, preVersion, promoted, hist,
                   nfault, ncalls>>

\* a plan that lists only the files directly under backup_dir
RestorePlan_top_only == {p \in TopFiles(backup) : IsPermitted(cfg, p)}

\* phase 1: the restoration plan, one entry per permitted file under backup_dir
RestorePlan == {p \in Files(backup) : IsPermitted(cfg, p)}

BootStart ==
    /\ pc = "boot"
    /\ IF Listed(backup) # {}
         THEN /\ walk' = RestorePlan
              /\ pc' = "restore"
         ELSE /\ walk' = {}
              /\ pc' = "boot_stage"
    /\ boot0' = [live |-> live, backup |-> backup, interrupted |-> FALSE,
                 first |-> IF boot0.interrupted THEN boot0.first
                           ELSE [live |-> live, stage |-> stage, backup |-> backup]]
    /\ UNCHANGED <<input, result, env, fs, args, applied, cur, staged_now, rb, rollback_errors,
                   raising, outcome, ghost, count>>

\* phase 2: "if _exists(target): os.remove(target)"
RestoreRemove(p) ==
    /\ pc = "restore"
    /\ p \in NextInWalk(walk)
    /\ live[p] # Absent
    /\ live' = [live EXCEPT ![p] = Absent]
    /\ UNCHANGED <<aux, env, stage, backup, version, vtmp, errfile, task, outcome, ghost, count>>

\* os.rename(bpath, target), sync
RestoreRename(p) ==
    /\ pc = "restore"
    /\ p \in NextInWalk(walk)
    /\ live[p] = Absent
    /\ live' = [live EXCEPT ![p] = backup[p]]
    /\ backup' = [backup EXCEPT ![p] = Absent]
    /\ walk' = walk \ {p}
    /\ UNCHANGED <<aux, env, stage, version, vtmp, errfile, pc, args, applied, cur,
                   staged_now, rb, rollback_errors, raising, outcome, ghost, count>>

\* a restore loop that gives up at the first failed rename
RestoreFault_aborts(p) ==
    /\ pc = "restore"
    /\ p \in NextInWalk(walk)
    /\ live[p] = Absent
    /\ nfault < MaxFaults
    /\ nfault' = nfault + 1
    /\ errfile' = <<p>>
    /\ walk' = {}
    /\ UNCHANGED <<aux, env, live, stage, backup, version, vtmp, pc, args, applied, cur,
                   staged_now, rb, rollback_errors, raising, outcome, ghost, ncrash, ncalls>>

\* the rename raises OSError: the error record is written, the loop goes on
RestoreFault(p) ==
    /\ pc = "restore"
    /\ p \in NextInWalk(walk)
    /\ live[p] = Absent
    /\ nfault < MaxFaults
    /\ nfault' = nfault + 1
    /\ errfile' = <<p>>
    /\ walk' = walk \ {p}
    /\ UNCHANGED <<aux, env, live, stage, backup, version, vtmp, pc, args, applied, cur,
                   staged_now, rb, rollback_errors, raising, outcome, ghost, ncrash, ncalls>>

RestoreDone ==
    /\ pc = "restore"
    /\ walk = {}
    /\ pc' = "boot_backup"
    /\ UNCHANGED <<aux, env, fs, args, applied, walk, cur, staged_now, rb, rollback_errors,
                   raising, outcome, ghost, count>>

\* _rmtree(self.backup)
BootRmBackup(p) ==
    /\ pc \in {"boot_backup", "boot_backup_sub"}
    /\ p \in NextInWalk(Files(backup))
    /\ pc = "boot_backup" => Len(p) = 1
    /\ backup' = [backup EXCEPT ![p] = Absent]
    /\ UNCHANGED <<aux, env, live, stage, version, vtmp, errfile, task, outcome, ghost, count>>

\* _rmtree(self.backup): os.rmdir of each directory of the top level
BootBackupDirs ==
    /\ pc = "boot_backup"
    /\ TopFiles(backup) = {}
    /\ backup' = Rmdirs(backup)
    /\ pc' = "boot_backup_sub"
    /\ UNCHANGED <<aux, env, live, stage, version, vtmp, errfile, args, applied, walk, cur,
                   staged_now, rb, rollback_errors, raising, outcome, ghost, count>>

BootBackupDone ==
    /\ pc = "boot_backup_sub"
    /\ Files(backup) = {}
    /\ pc' = "boot_stage"
    /\ UNCHANGED <<aux, env, fs, args, applied, walk, cur, staged_now, rb, rollback_errors,
                   raising, outcome, ghost, count>>

\* _rmtree(self.stage)
BootRmStage(p) ==
    /\ pc \in {"boot_stage", "boot_stage_sub"}
    /\ p \in NextInWalk(Files(stage))
    /\ pc = "boot_stage" => Len(p) = 1
    /\ stage' = [stage EXCEPT ![p] = Absent]
    /\ UNCHANGED <<aux, env, live, backup, version, vtmp, errfile, task, outcome, ghost, count>>

\* _rmtree(self.stage): os.rmdir of each directory of the top level
BootStageDirs ==
    /\ pc = "boot_stage"
    /\ TopFiles(stage) = {}
    /\ stage' = Rmdirs(stage)
    /\ pc' = "boot_stage_sub"
    /\ UNCHANGED <<aux, env, live, backup, version, vtmp, errfile, args, applied, walk, cur,
                   staged_now, rb, rollback_errors, raising, outcome, ghost, count>>

\* ensure_dirs(stage), ensure_dirs(backup): construction is complete
BootDone ==
    /\ pc = "boot_stage_sub"
    /\ Files(stage) = {}
    /\ pc' = "idle"
    /\ outcome' = "recovered"
    /\ UNCHANGED <<aux, env, fs, args, applied, walk, cur, staged_now, rb, rollback_errors,
                   raising, ghost, count>>

\* ------------------------------------------------------------------

Next ==
    \/ \E p \in Paths : StageFile(p)
    \/ \E t \in CallTargets, d \in SUBSET Paths : CallStageAndSwap(t, d)
    \/ \E p \in Paths : PromoteSkip(p)
    \/ \E p \in Paths : PromoteBackup(p)
    \/ \E p \in Paths : PromoteBackupFault(p)
    \/ \E p \in Paths : PromoteNew(p)
    \/ \E p \in Paths : PromoteNewFault(p)
    \/ PromoteMove
    \/ PromoteMoveFault
    \/ PromoteDone
    \/ \E p \in Paths : DeleteSkip(p)
    \/ \E p \in Paths : DeleteBackup(p)
    \/ \E p \in Paths : DeleteBackupFault(p)
    \/ DeletesDone
    \/ \E p \in Paths : SweepSkip(p)
    \/ \E p \in Paths : SweepBackup(p)
    \/ \E p \in Paths : SweepBackupFault(p)
    \/ SweepDone
    \/ WsSkip
    \/ WsOpen
    \/ WsOpenFault
    \/ WsDump
    \/ WsDumpFault
    \/ WsRename
    \/ WsSync
    \/ WsRenameFault
    \/ RollbackSkip
    \/ RollbackRemove
    \/ RollbackRename
    \/ RollbackFault
    \/ RollbackDone
    \/ \E p \in Paths : FinRmStage(p)
    \/ FinStageDirs
    \/ FinStageDone
    \/ \E p \in Paths : FinRmBackup(p)
    \/ FinBackupDirs
    \/ FinDone
    \/ Crash
    \/ BootStart
    \/ \E p \in Paths : RestoreRemove(p)
    \/ \E p \in Paths : RestoreRename(p)
    \/ \E p \in Paths : RestoreFault(p)
    \/ RestoreDone
    \/ \E p \in Paths : BootRmBackup(p)
    \/ BootBackupDirs
    \/ BootBackupDone
    \/ \E p \in Paths : BootRmStage(p)
    \/ BootStageDirs
    \/ BootDone

Spec == Init /\ [][Next]_vars

\* ------------------------------------------------------------------
\* OTA construction on a device whose stage_dir and backup_dir hold what an
\* interrupted run, possibly under another configuration, left behind

\* the trees a run leaves: files of one content, each under its directories
BootTrees(c) ==
    {t \in [Nodes -> {Absent, Dir, c}] :
        /\ \A p \in Paths : t[p] \in {Absent, c}
        /\ \A d \in Dirs : t[d] \in {Absent, Dir}
        /\ \A p \in Paths, d \in Dirs :
              (t[p] # Absent /\ StartsWithDir(p, d)) => t[d] = Dir}

InitBoot ==
    /\ cfg \in Configs
    /\ live \in [Paths -> {Absent, "o", "n"}]
    /\ stage \in BootTrees("n")
    /\ backup \in BootTrees("o")
    /\ version \in {None, Record("v1", "c1")}
    /\ pc = "boot"
    /\ outcome = "crashed"
    /\ InitRest
    /\ NoCall
    /\ upd = NoUpd

NextBoot ==
    \/ Crash
    \/ BootStart
    \/ \E p \in Paths : RestoreRemove(p)
    \/ \E p \in Paths : RestoreRename(p)
    \/ \E p \in Paths : RestoreFault(p)
    \/ RestoreDone
    \/ \E p \in Paths : BootRmBackup(p)
    \/ BootBackupDirs
    \/ BootBackupDone
    \/ \E p \in Paths : BootRmStage(p)
    \/ BootStageDirs
    \/ BootDone

SpecBoot == InitBoot /\ [][NextBoot]_vars

\* ------------------------------------------------------------------
\* OTA.update_if_available: resolve, identity gate, staging, swap

\* "already at target": the record comparison of the manifest path
\* (ref and commit) and of the tree path (commit only)
AtTarget(t) ==
    /\ version # None
    /\ version # Partial
    /\ IF t.mode = "tag" THEN version = Record(t.ref, t.commit)
                         ELSE version[2] = t.commit

\* iter_candidates, and the permitted entries of manifest["files"]
Candidates(t) == {p \in Paths : t.files[p] # Absent /\ IsPermitted(cfg, p)}

\* the sizes of the candidates in the order of the listing
RECURSIVE SizesOf(_, _)
SizesOf(t, order) ==
    IF order = <<>> THEN <<>>
    ELSE (IF Head(order) \in Candidates(t) THEN <<Size(t.files[Head(order)])>> ELSE <<>>)
            \o SizesOf(t, Tail(order))

ListingOrder == <<<<"a">>, <<"lib", "b">>>>

\* OTA._check_storage(required)
CheckStorage(free, min_free_storage, required) ==
    LET need == IF required > min_free_storage THEN required ELSE min_free_storage
    IN  ~(free # NoFree /\ free < need)

RECURSIVE Sum(_)
Sum(sizes) == IF sizes = <<>> THEN 0 ELSE Head(sizes) + Sum(Tail(sizes))

\* the candidate loop of update_if_available: entries are added until the
\* storage check on twice the running sum fails (early stop)
RECURSIVE Collect(_, _, _, _)
Collect(sizes, taken, free, min_free_storage) ==
    IF sizes = <<>> THEN taken
    ELSE LET now == Append(taken, Head(sizes))
         IN  IF ~CheckStorage(free, min_free_storage, Sum(now) * 2) THEN now
             ELSE Collect(Tail(sizes), now, free, min_free_storage)

\* _validate_update_plan on valid permitted paths: the storage check on
\* twice the total; an empty plan is valid
ValidateUpdatePlan(candidates, free, min_free_storage) ==
    candidates = <<>> \/ CheckStorage(free, min_free_storage, Sum(candidates) * 2)

\* a storage check that ignores min_free_storage
StorageGate_required_only(sizes, free, min_free_storage) ==
    free = NoFree \/ free >= 2 * Sum(sizes)

\* update_if_available from the candidate loop to the storage check: TRUE
\* when the call goes on to staging
StorageGate(sizes, free, min_free_storage) ==
    LET candidates == Collect(sizes, <<>>, free, min_free_storage)
    IN  /\ ValidateUpdatePlan(candidates, free, min_free_storage)
        /\ CheckStorage(free, min_free_storage, Sum(candidates) * 2)

\* a verification that only asks for a signature to be present
SignatureOk_present(key, t, sig) ==
    key = NoKey \/ sig # None

\* _verify_manifest_signature
SignatureOk(key, t, sig) ==
    key = NoKey \/ (sig # None /\ sig = Hmac(key, Canonical(t)))

\* positions inside the staging loop, and those with a request answered
StagingPcs == {"staging", "dl_open", "dl_write", "dl_sync", "dl_verify", "dl_cleanup"}
FetchPcs == StagingPcs \ {"staging"}

\* the manifest and the free storage reading are locals of the call: they
\* are gone when the staging loop is left
EndStaging == [upd EXCEPT !.sig = None, !.free = NoFree, !.dl = NoDl]

\* what a call of update_if_available starts from
BeginUpdate(t, sig, free) ==
    upd' = [upd EXCEPT !.target = t, !.sig = sig, !.free = free, !.cands = {},
                       !.n = upd.n + 1, !.dl = NoDl, !.hook = FALSE,
                       !.reset = NoReset]

\* connect, the resource gate or target resolution ends the call before
\* the listing is read
UpdateAbort ==
    /\ pc = "idle"
    /\ upd.n < MaxUpdates
    /\ BeginUpdate(NoTarget, None, NoFree)
    /\ outcome' = "aborted"
    /\ UNCHANGED <<aux, cfg, fs, task, ghost, count>>

\* manifest mode: the signature check raises; _storage_free is not read
UpdateBadSignature(t, sig) ==
    /\ pc = "idle"
    /\ upd.n < MaxUpdates
    /\ t.mode = "tag"
    /\ ~SignatureOk(upd.key, t, sig)
    /\ BeginUpdate(t, sig, NoFree)
    /\ outcome' = "bad_signature"
    /\ UNCHANGED <<aux, cfg, fs, task, ghost, count>>

\* the identity gate: no change, nothing fetched; _storage_free is not read
UpdateNoChange(t, sig) ==
    /\ pc = "idle"
    /\ upd.n < MaxUpdates
    /\ t.mode = "tag" => SignatureOk(upd.key, t, sig)
    /\ t.mode # "tag" => sig = None
    /\ ~upd.force /\ AtTarget(t)
    /\ BeginUpdate(t, sig, NoFree)
    /\ outcome' = "nochange"
    /\ UNCHANGED <<aux, cfg, fs, task, ghost, count>>

\* tree mode: iter_candidates reaches the entry with the invalid path and
\* _is_permitted raises
UpdateBadPath(t, free) ==
    /\ pc = "idle"
    /\ upd.n < MaxUpdates
    /\ t.mode # "tag"
    /\ upd.force \/ ~AtTarget(t)
    /\ t.invalid
    /\ BeginUpdate(t, None, free)
    /\ outcome' = "bad_path"
    /\ UNCHANGED <<aux, cfg, fs, task, ghost, count>>

\* tree mode: the storage gate returns False
UpdateLowStorage(t, free) ==
    /\ pc = "idle"
    /\ upd.n < MaxUpdates
    /\ t.mode # "tag"
    /\ upd.force \/ ~AtTarget(t)
    /\ ~StorageGate(SizesOf(t, ListingOrder), free, 0)
    /\ BeginUpdate(t, None, free)
    /\ outcome' = "low_storage"
    /\ UNCHANGED <<aux, cfg, fs, task, ghost, count>>

\* every gate of the mode is passed: the staging loop starts
UpdateBegin(t, sig, free) ==
    /\ pc = "idle"
    /\ upd.n < MaxUpdates
    /\ upd.force \/ ~AtTarget(t)
    /\ IF t.mode = "tag"
         THEN SignatureOk(upd.key, t, sig)
         ELSE /\ sig = None
              /\ ~t.invalid
              /\ StorageGate(SizesOf(t, ListingOrder), free, 0)
    /\ upd' = [upd EXCEPT !.target = t, !.sig = sig, !.free = free,
                          !.cands = Candidates(t), !.n = upd.n + 1, !.dl = NoDl,
                          !.hook = FALSE, !.reset = NoReset]
    /\ pc' = "staging"
    /\ outcome' = "running"
    /\ UNCHANGED <<aux, cfg, fs, args, applied, walk, cur, staged_now, rb, rollback_errors,
                   raising, ghost, count>>

\* the file already under stage_dir is taken as staged: its blob SHA-1 over
\* the entry's size (tree), its SHA-256 when the manifest gives one
AlreadyStaged(t, p) ==
    /\ stage[p] # Absent
    /\ IF t.mode = "tag"
         THEN t.check[p] = "sha" /\ Sha256(stage[p]) = Sha256(t.files[p])
         ELSE /\ Size(stage[p]) = Size(t.files[p])
              /\ BlobSha1(stage[p]) = BlobSha1(t.files[p])

\* the checks of stream_and_verify_git / _download_asset on the bytes c
Verified(t, p, c) ==
    /\ Size(c) = Size(t.files[p])
    /\ IF t.mode = "tag"
         THEN CASE t.check[p] = "sha" -> Sha256(c) = Sha256(t.files[p])
                [] t.check[p] = "crc" -> Crc32(c) = Crc32(t.files[p])
                [] OTHER -> TRUE
         ELSE BlobSha1(c) = BlobSha1(t.files[p])

StageSkip(p) ==
    /\ pc = "staging"
    /\ p \in upd.cands
    /\ AlreadyStaged(upd.target, p)
    /\ upd' = [upd EXCEPT !.cands = upd.cands \ {p}]
    /\ UNCHANGED <<aux, cfg, fs, task, outcome, ghost, count>>

\* manifest mode: the file loop reaches the entry with the invalid path and
\* _normalize_path raises, after the entries listed before it were staged
StageBadPath ==
    /\ pc = "staging"
    /\ upd.target.mode = "tag" /\ upd.target.invalid
    /\ pc' = "idle"
    /\ outcome' = "staging_failed"
    /\ upd' = EndStaging
    /\ UNCHANGED <<aux, cfg, fs, args, applied, walk, cur, staged_now, rb, rollback_errors,
                   raising, ghost, count>>

\* self._get fails after its retries: the error leaves update_if_available
StageFailed(p) ==
    /\ pc = "staging"
    /\ p \in upd.cands
    /\ ~AlreadyStaged(upd.target, p)
    /\ pc' = "idle"
    /\ outcome' = "staging_failed"
    /\ upd' = EndStaging
    /\ UNCHANGED <<aux, cfg, fs, args, applied, walk, cur, staged_now, rb, rollback_errors,
                   raising, ghost, count>>

\* self._get answers: the response will deliver the bytes c
DlGet(p, c) ==
    /\ pc = "staging"
    /\ p \in upd.cands
    /\ ~AlreadyStaged(upd.target, p)
    /\ upd' = [upd EXCEPT !.dl = [NoDl EXCEPT !.path = p, !.got = c]]
    /\ pc' = "dl_open"
    /\ UNCHANGED <<aux, cfg, fs, args, applied, walk, cur, staged_now, rb, rollback_errors,
                   raising, outcome, ghost, count>>

\* open(tmp, "wb")
DlOpen ==
    /\ pc = "dl_open"
    /\ upd' = [upd EXCEPT !.dl.tmp = ""]
    /\ pc' = "dl_write"
    /\ UNCHANGED <<aux, cfg, fs, args, applied, walk, cur, staged_now, rb, rollback_errors,
                   raising, outcome, ghost, count>>

\* the write loop: every chunk of the response goes to <path>.tmp.  In tree
\* mode git_blob_sha1_stream raises when the byte count is not the declared
\* size, before the flush
DlWrite ==
    /\ pc = "dl_write"
    /\ upd' = [upd EXCEPT !.dl.tmp = upd.dl.got]
    /\ pc' = IF /\ upd.target.mode # "tag"
                /\ Size(upd.dl.got) # Size(upd.target.files[upd.dl.path])
               THEN "dl_cleanup" ELSE "dl_sync"
    /\ UNCHANGED <<aux, cfg, fs, args, applied, walk, cur, staged_now, rb, rollback_errors,
                   raising, outcome, ghost, count>>

\* f.flush(), os.fsync(f.fileno()) and the close
DlSync ==
    /\ pc = "dl_sync"
    /\ upd' = [upd EXCEPT !.dl.synced = TRUE]
    /\ pc' = "dl_verify"
    /\ UNCHANGED <<aux, cfg, fs, args, applied, walk, cur, staged_now, rb, rollback_errors,
                   raising, outcome, ghost, count>>

\* a comparison fails: OTAError
DlReject ==
    /\ pc = "dl_verify"
    /\ ~Verified(upd.target, upd.dl.path, upd.dl.got)
    /\ pc' = "dl_cleanup"
    /\ UNCHANGED <<aux, env, fs, args, applied, walk, cur, staged_now, rb, rollback_errors,
                   raising, outcome, ghost, count>>

\* a staging loop that does not move on to the next candidate
StageFetched_keeps_candidate ==
    /\ pc = "dl_verify"
    /\ Verified(upd.target, upd.dl.path, upd.dl.got)
    /\ stage' = [EnsureDirs(stage, upd.dl.path) EXCEPT ![upd.dl.path] = upd.dl.tmp]
    /\ upd' = [upd EXCEPT !.dl = NoDl]
    /\ pc' = "staging"
    /\ UNCHANGED <<aux, cfg, live, backup, version, vtmp, errfile, args, applied, walk, cur,
                   staged_now, rb, rollback_errors, raising, outcome, ghost, count>>

\* the comparisons pass: <path>.tmp is renamed to the stage path (tree mode
\* removes a file found there first)
StageFetched ==
    /\ pc = "dl_verify"
    /\ Verified(upd.target, upd.dl.path, upd.dl.got)
    /\ stage' = [EnsureDirs(stage, upd.dl.path) EXCEPT ![upd.dl.path] = upd.dl.tmp]
    /\ upd' = [upd EXCEPT !.cands = upd.cands \ {upd.dl.path}, !.dl = NoDl]
    /\ pc' = "staging"
    /\ UNCHANGED <<aux, cfg, live, backup, version, vtmp, errfile, args, applied, walk, cur,
                   staged_now, rb, rollback_errors, raising, outcome, ghost, count>>

\* the finally block removes <path>.tmp and the error leaves
\* update_if_available
DlCleanup ==
    /\ pc = "dl_cleanup"
    /\ upd' = EndStaging
    /\ pc' = "idle"
    /\ outcome' = "staging_failed"
    /\ UNCHANGED <<aux, cfg, fs, args, applied, walk, cur, staged_now, rb, rollback_errors,
                   raising, ghost, count>>

\* every candidate is staged: stage_and_swap is called
UpdateSwap ==
    /\ pc = "staging"
    /\ upd.cands = {}
    /\ ~(upd.target.mode = "tag" /\ upd.target.invalid)
    /\ BeginSwap(upd.target.ref, upd.target.commit,
                 {d \in upd.target.deletes : IsPermitted(cfg, d)})
    /\ upd' = EndStaging
    /\ UNCHANGED <<aux, cfg, fs, ncrash, nfault>>

ResetModes == {"hard", "soft", "none"}

\* _perform_reset: which primitive of the machine module is called
PerformReset(mode, has_soft_reset) ==
    IF mode = "none" THEN "none"
    ELSE IF mode = "soft" /\ has_soft_reset THEN "soft_reset"
    ELSE "reset"

\* stage_and_swap has returned: manifest mode runs the post_update hook when
\* the manifest names one (its failure is printed, not raised), then
\* _perform_reset is called and update_if_available returns True
UpdateFinalize(hook, mode, has_soft_reset) ==
    /\ pc = "finalize"
    /\ hook => upd.target.mode = "tag"
    /\ upd' = [upd EXCEPT !.hook = hook, !.reset = PerformReset(mode, has_soft_reset)]
    /\ pc' = "idle"
    /\ outcome' = "returned"
    /\ UNCHANGED <<aux, cfg, fs, args, applied, walk, cur, staged_now, rb,
                   rollback_errors, raising, ghost, count>>

NextUpdate ==
    \/ UpdateAbort
    \/ \E t \in Targets : \E sig \in Signatures(t) : UpdateBadSignature(t, sig)
    \/ \E t \in Targets : \E sig \in Signatures(t) : UpdateNoChange(t, sig)
    \/ \E t \in Targets, free \in FreeValues : UpdateBadPath(t, free)
    \/ \E t \in Targets, free \in FreeValues : UpdateLowStorage(t, free)
    \/ \E t \in Targets, free \in FreeValues : \E sig \in Signatures(t) : UpdateBegin(t, sig, free)
    \/ \E p \in Paths : StageSkip(p)
    \/ StageBadPath
    \/ \E p \in Paths : StageFailed(p)
    \/ \E p \in Paths, c \in Content : DlGet(p, c)
    \/ DlOpen
    \/ DlWrite
    \/ DlSync
    \/ DlReject
    \/ StageFetched
    \/ DlCleanup
    \/ UpdateSwap
    \/ \E p \in Paths : PromoteBackup(p)
    \/ \E p \in Paths : PromoteNew(p)
    \/ PromoteMove
    \/ PromoteMoveFault
    \/ PromoteDone
    \/ \E p \in Paths : DeleteSkip(p)
    \/ \E p \in Paths : DeleteBackup(p)
    \/ DeletesDone
    \/ \E p \in Paths : SweepSkip(p)
    \/ \E p \in Paths : SweepBackup(p)
    \/ SweepDone
    \/ WsSkip
    \/ WsOpen
    \/ WsDump
    \/ WsRename
    \/ WsSync
    \/ WsRenameFault
    \/ RollbackSkip
    \/ RollbackRemove
    \/ RollbackRename
    \/ RollbackDone
    \/ \E p \in Paths : FinRmStage(p)
    \/ FinStageDirs
    \/ FinStageDone
    \/ \E p \in Paths : FinRmBackup(p)
    \/ FinBackupDirs
    \/ FinDone
    \/ \E hook \in BOOLEAN, mode \in ResetModes, has_soft_reset \in BOOLEAN :
          UpdateFinalize(hook, mode, has_soft_reset)

SpecUpdate == InitUpdate /\ [][NextUpdate]_vars

\* ------------------------------------------------------------------
\* Path Guard: OTA._normalize_path, _stage_path, _backup_path on strings

\* a path string is a sequence of characters
Chars == {"/", ".", "x"}
Rels == UNION {[1..n -> Chars] : n \in 0..MaxRelLen}

\* self.stage, self.backup
StageDirName == <<".", "s">>
BackupDirName == <<".", "b">>

\* what a call gives: a value, or OTAError
Ok(v) == <<"ok", v>>
Raise == <<"OTAError", <<>>>>

\* str.split("/")
RECURSIVE Split(_)
Split(str) ==
    IF \A i \in 1..Len(str) : str[i] # "/"
      THEN <<str>>
      ELSE LET i == CHOOSE k \in 1..Len(str) :
                        str[k] = "/" /\ \A j \in 1..(k - 1) : str[j] # "/"
           IN  <<SubSeq(str, 1, i - 1)>> \o Split(SubSeq(str, i + 1, Len(str)))

\* "/".join(parts)
RECURSIVE Join(_)
Join(parts) ==
    IF Len(parts) = 1 THEN parts[1]
    ELSE parts[1] \o <<"/">> \o Join(Tail(parts))

\* a guard that only rejects absolute paths
NormalizePath_lead_only(rel) ==
    IF Len(rel) > 0 /\ rel[1] = "/" THEN Raise ELSE Ok(rel)

\* OTA._normalize_path
NormalizePath(rel) ==
    IF Len(rel) > 0 /\ rel[1] = "/" THEN Raise
    ELSE LET parts == Split(rel)
         IN  IF \E i \in 1..Len(parts) : parts[i] \in {<<>>, <<".">>, <<".", ".">>}
               THEN Raise
               ELSE Ok(Join(parts))

\* OTA._stage_path, OTA._backup_path: the directory, "/", the normalised path
UnderDir(dirname, rel) ==
    LET n == NormalizePath(rel)
    IN  IF n = Raise THEN Raise ELSE Ok(dirname \o <<"/">> \o n[2])

StagePath(rel) == UnderDir(StageDirName, rel)
BackupPath(rel) == UnderDir(BackupDirName, rel)

PathFns == {"_normalize_path", "_stage_path", "_backup_path"}

InitPath ==
    /\ cfg \in {c \in Configs : c.allow = {} /\ c.delete_patterns = {}}
    /\ live = EmptyDir
    /\ stage = EmptyTree
    /\ backup = EmptyTree
    /\ version = None
    /\ pc = "idle"
    /\ outcome = "none"
    /\ InitRest
    /\ upd = NoUpd
    /\ input \in {<<f, r>> : f \in PathFns, r \in Rels}
    /\ result = None

CallNormalizePath ==
    /\ input[1] = "_normalize_path" /\ result = None
    /\ result' = NormalizePath(input[2])
    /\ UNCHANGED <<boot0, input, env, fs, task, outcome, ghost, count>>

CallStagePath ==
    /\ input[1] = "_stage_path" /\ result = None
    /\ result' = StagePath(input[2])
    /\ UNCHANGED <<boot0, input, env, fs, task, outcome, ghost, count>>

CallBackupPath ==
    /\ input[1] = "_backup_path" /\ result = None
    /\ result' = BackupPath(input[2])
    /\ UNCHANGED <<boot0, input, env, fs, task, outcome, ghost, count>>

NextPath == CallNormalizePath \/ CallStagePath \/ CallBackupPath

SpecPath == InitPath /\ [][NextPath]_vars

\* ------------------------------------------------------------------
\* The storage gate of update_if_available on its own

\* the sizes of the candidates of a tree, in listing order
SizeLists == UNION {[1..n -> {1, 2}] : n \in 0..MaxEntries}

\* cfg["min_free_storage"]: the default, and a threshold
MinFreeStorages == {0, 5}

InitGate ==
    /\ cfg \in {c \in Configs : c.allow = {} /\ c.delete_patterns = {}}
    /\ live = EmptyDir
    /\ stage = EmptyTree
    /\ backup = EmptyTree
    /\ version = None
    /\ pc = "idle"
    /\ outcome = "none"
    /\ InitRest
    /\ upd = NoUpd
    /\ input \in {<<sizes, free, m>> :
                     sizes \in SizeLists, free \in (0..MaxFree) \cup {NoFree},
                     m \in MinFreeStorages}
    /\ result = None

CallStorageGate ==
    /\ result = None
    /\ result' = Ok(StorageGate(input[1], input[2], input[3]))
    /\ UNCHANGED <<boot0, input, env, fs, task, outcome, ghost, count>>

NextGate == CallStorageGate

SpecGate == InitGate /\ [][NextGate]_vars

\* ------------------------------------------------------------------
\* OTA._get: the request loop with retries and backoff

\* what requests.get does in one attempt: a response with a status code, or
\* an exception of the transport
Status(code) == [kind |-> "status", code |-> code]
TransportError == [kind |-> "exception", code |-> 0]
Responses == {Status(200), Status(399), Status(400), Status(503), TransportError}

\* http_retries, backoff_sec, max_backoff_sec
GetConfigs == [n : 0..MaxRetries, b : {1, 3}, m : {2, 60}]

\* "raise last_error" while last_error is still None raises a TypeError
RaiseNone == [kind |-> "TypeError", code |-> 0]

\* the locals of one call: the loop index, last_error, and what the call has
\* done so far (requests issued, errors of the failed attempts, seconds
\* slept after each of them, how it ended)
NoGet ==
    [attempt |-> 0, last_error |-> None, requests |-> 0, failed |-> <<>>,
     slept |-> <<>>, returned |-> None, raised |-> None]

InitGet ==
    /\ cfg \in {c \in Configs : c.allow = {} /\ c.delete_patterns = {}}
    /\ live = EmptyDir
    /\ stage = EmptyTree
    /\ backup = EmptyTree
    /\ version = None
    /\ pc = "idle"
    /\ outcome = "none"
    /\ InitRest
    /\ upd = NoUpd
    /\ input \in GetConfigs
    /\ result = NoGet

GetBusy == result.returned = None /\ result.raised = None

\* one pass of "for attempt in range(max_retries)" that returns the response
GetReturn(r) ==
    /\ GetBusy
    /\ result.attempt < input.n
    /\ r.kind = "status" /\ r.code < 400
    /\ result' = [result EXCEPT !.requests = result.requests + 1, !.returned = r]
    /\ UNCHANGED <<boot0, input, env, fs, task, outcome, ghost, count>>

\* one pass that ends in the except clause: OTAError("HTTP <status>") for a
\* status of 400 or more, or the exception of requests.get itself
GetFail(r) ==
    /\ GetBusy
    /\ result.attempt < input.n
    /\ r.kind = "exception" \/ r.code >= 400
    /\ LET sleep_time == IF input.b * (2 ^ result.attempt) < input.m
                           THEN input.b * (2 ^ result.attempt)
                           ELSE input.m
       IN  result' = [result EXCEPT
                        !.requests = result.requests + 1,
                        !.last_error = r,
                        !.failed = Append(result.failed, r),
                        !.slept = IF result.attempt < input.n - 1
                                    THEN Append(result.slept, sleep_time)
                                    ELSE result.slept,
                        !.attempt = result.attempt + 1]
    /\ UNCHANGED <<boot0, input, env, fs, task, outcome, ghost, count>>

\* the range is exhausted: "raise last_error"
GetRaise ==
    /\ GetBusy
    /\ result.attempt >= input.n
    /\ result' = [result EXCEPT
                    !.raised = IF result.last_error = None THEN RaiseNone
                               ELSE result.last_error]
    /\ UNCHANGED <<boot0, input, env, fs, task, outcome, ghost, count>>

NextGet ==
    \/ \E r \in Responses : GetReturn(r)
    \/ \E r \in Responses : GetFail(r)
    \/ GetRaise

SpecGet == InitGet /\ [][NextGet]_vars

\* ------------------------------------------------------------------
\* delta.py: byte strings
\*
\* A byte string is kept run-length encoded, as a sequence of <<byte, count>>
\* with count > 0 and no two neighbouring runs of the same byte, so that a
\* string of MAX_COPY_SIZE + 1 equal bytes is one run. Two byte strings
\* are equal exactly when their encodings are.

\* len(data)
RECURSIVE BLen(_)
BLen(s) == IF s = <<>> THEN 0 ELSE s[1][2] + BLen(Tail(s))

\* data + more (bytearray.extend, file.write at the end of the file)
BCat(s, t) ==
    IF s = <<>> THEN t
    ELSE IF t = <<>> THEN s
    ELSE IF s[Len(s)][1] = t[1][1]
      THEN SubSeq(s, 1, Len(s) - 1) \o <<<<t[1][1], s[Len(s)][2] + t[1][2]>>>> \o Tail(t)
      ELSE s \o t

\* data[from:from + n], and seek(from) followed by read(n): the bytes that
\* exist in that range
RECURSIVE BSlice(_, _, _)
BSlice(s, from, n) ==
    IF s = <<>> \/ n <= 0 THEN <<>>
    ELSE IF from >= s[1][2] THEN BSlice(Tail(s), from - s[1][2], n)
    ELSE LET k == IF n < s[1][2] - from THEN n ELSE s[1][2] - from
         IN  BCat(<<<<s[1][1], k>>>>, BSlice(Tail(s), 0, n - k))

\* the byte string of a list of byte values
RECURSIVE BytesOf(_)
BytesOf(l) == IF l = <<>> THEN <<>> ELSE BCat(<<<<l[1], 1>>>>, BytesOf(Tail(l)))

\* data[offset] for an offset inside the string
ByteAt(s, offset) == BSlice(s, offset, 1)[1][1]

DELTA_MAGIC == BytesOf(<<79, 84, 65, 68, 69, 76, 84, 65>>)
DELTA_VERSION == 1
OP_COPY_OLD == 1
OP_NEW_DATA == 2
OP_END == 255
MAX_COPY_SIZE == 4096
MAX_INSERT_SIZE == 2048
\* the default of the chunk_size parameter of apply_delta
CHUNK_SIZE == 512

\* _read_varint: stops without complaint where the data ends
ReadVarint(data, offset) ==
    LET RECURSIVE Loop(_, _, _)
        Loop(off, res, shift) ==
            IF off >= BLen(data) THEN <<res, off>>
            ELSE LET byte == ByteAt(data, off)
                     r == IF byte % 128 = 0 THEN res
                          ELSE res + (byte % 128) * (2 ^ shift)
                 IN  IF byte < 128 THEN <<r, off + 1>>
                     ELSE Loop(off + 1, r, shift + 7)
    IN  Loop(offset, 0, 0)

\* _read_varint_from_reader over the reader's position: DeltaError at the end
\* of the file and after a fifth continuation byte
ReadVarintFromReader(data, offset) ==
    LET RECURSIVE Loop(_, _, _)
        Loop(off, res, shift) ==
            IF off >= BLen(data) THEN <<"DeltaError", 0, off>>
            ELSE LET byte == ByteAt(data, off)
                     r == IF byte % 128 = 0 THEN res
                          ELSE res + (byte % 128) * (2 ^ shift)
                 IN  IF byte < 128 THEN <<"ok", r, off + 1>>
                     ELSE IF shift + 7 > 28 THEN <<"DeltaError", 0, off + 1>>
                     ELSE Loop(off + 1, r, shift + 7)
    IN  Loop(offset, 0, 0)

\* _write_varint
RECURSIVE WriteVarint(_)
WriteVarint(value) ==
    IF value > 127
      THEN BCat(<<<<(value % 128) + 128, 1>>>>, WriteVarint(value \div 128))
      ELSE <<<<value % 128, 1>>>>

\* the limit test accepts a length equal to the limit
TooLarge_inclusive(length, limit) == length >= limit

\* "if copy_length > MAX_COPY_SIZE", "if insert_length > MAX_INSERT_SIZE"
TooLarge(length, limit) == length > limit

\* the chunk loop: read min(chunk_size, remaining) bytes at the position,
\* stop with an error when fewer are there, else write them to the output;
\* <<everything was copied, the output file>>
CopyChunks(src, pos, length, out) ==
    LET RECURSIVE Loop(_, _, _)
        Loop(at, remaining, o) ==
            IF remaining <= 0 THEN <<TRUE, o>>
            ELSE LET chunk == IF CHUNK_SIZE < remaining THEN CHUNK_SIZE ELSE remaining
                     data == BSlice(src, at, chunk)
                 IN  IF BLen(data) # chunk THEN <<FALSE, o>>
                     ELSE Loop(at + chunk, remaining - chunk, BCat(o, data))
    IN  Loop(pos, length, out)

\* how a call of apply_delta ends: the hash it returns or DeltaError, and
\* the bytes it has written to output_path by then
DeltaResult(status, out) ==
    [status |-> status, out |-> out,
     hash |-> IF status = "ok" THEN Sha256(out) ELSE None]

\* after the instruction loop: compare with expected_hash when one is given
VerifyOutput(out, expected_hash) ==
    IF expected_hash # None /\ Sha256(out) # expected_hash
      THEN DeltaResult("DeltaError", out)
      ELSE DeltaResult("ok", out)

\* _apply_delta_legacy: the delta is a bytes object
ApplyDeltaLegacy(old, delta, expected_hash) ==
    LET RECURSIVE Loop(_, _)
        Loop(offset, out) ==
            IF offset >= BLen(delta) THEN VerifyOutput(out, expected_hash)
            ELSE LET opcode == ByteAt(delta, offset)
                 IN  IF opcode = OP_END THEN VerifyOutput(out, expected_hash)
                     ELSE IF opcode = OP_COPY_OLD
                       THEN LET o == ReadVarint(delta, offset + 1)
                                l == ReadVarint(delta, o[2])
                                c == CopyChunks(old, o[1], l[1], out)
                            IN  IF TooLarge(l[1], MAX_COPY_SIZE)
                                  THEN DeltaResult("DeltaError", out)
                                ELSE IF ~c[1] THEN DeltaResult("DeltaError", c[2])
                                ELSE Loop(l[2], c[2])
                     ELSE IF opcode = OP_NEW_DATA
                       THEN LET l == ReadVarint(delta, offset + 1)
                            IN  IF TooLarge(l[1], MAX_INSERT_SIZE)
                                  THEN DeltaResult("DeltaError", out)
                                ELSE IF l[2] + l[1] > BLen(delta)
                                  THEN DeltaResult("DeltaError", out)
                                ELSE Loop(l[2] + l[1], BCat(out, BSlice(delta, l[2], l[1])))
                     ELSE DeltaResult("DeltaError", out)
    IN  IF BLen(delta) < 9 THEN DeltaResult("DeltaError", <<>>)
        ELSE IF BSlice(delta, 0, 8) # DELTA_MAGIC THEN DeltaResult("DeltaError", <<>>)
        ELSE IF ByteAt(delta, 8) # DELTA_VERSION THEN DeltaResult("DeltaError", <<>>)
        ELSE Loop(9, <<>>)

\* apply_delta on a delta file, read through ChunkedDeltaReader; the
\* reader's buffer only batches the file reads, so its state is the position
ApplyDeltaStreaming(old, delta, expected_hash) ==
    LET RECURSIVE Loop(_, _)
        Loop(offset, out) ==
            IF offset >= BLen(delta) THEN DeltaResult("DeltaError", out)
            ELSE LET opcode == ByteAt(delta, offset)
                 IN  IF opcode = OP_END THEN VerifyOutput(out, expected_hash)
                     ELSE IF opcode = OP_COPY_OLD
                       THEN LET o == ReadVarintFromReader(delta, offset + 1)
                                l == ReadVarintFromReader(delta, o[3])
                                c == CopyChunks(old, o[2], l[2], out)
                            IN  IF o[1] # "ok" \/ l[1] # "ok"
                                  THEN DeltaResult("DeltaError", out)
                                ELSE IF TooLarge(l[2], MAX_COPY_SIZE)
                                  THEN DeltaResult("DeltaError", out)
                                ELSE IF ~c[1] THEN DeltaResult("DeltaError", c[2])
                                ELSE Loop(l[3], c[2])
                     ELSE IF opcode = OP_NEW_DATA
                       THEN LET l == ReadVarintFromReader(delta, offset + 1)
                                c == CopyChunks(delta, l[3], l[2], out)
                            IN  IF l[1] # "ok" THEN DeltaResult("DeltaError", out)
                                ELSE IF TooLarge(l[2], MAX_INSERT_SIZE)
                                  THEN DeltaResult("DeltaError", out)
                                ELSE IF ~c[1] THEN DeltaResult("DeltaError", c[2])
                                ELSE Loop(l[3] + l[2], c[2])
                     ELSE DeltaResult("DeltaError", out)
    IN  IF BLen(delta) < 8 THEN DeltaResult("DeltaError", <<>>)
        ELSE IF BSlice(delta, 0, 8) # DELTA_MAGIC THEN DeltaResult("DeltaError", <<>>)
        ELSE IF BLen(delta) < 9 THEN DeltaResult("DeltaError", <<>>)
        ELSE IF ByteAt(delta, 8) # DELTA_VERSION THEN DeltaResult("DeltaError", <<>>)
        ELSE Loop(9, <<>>)

\* apply_delta: a bytes object is applied by the legacy code, a path is read
\* as a stream
ApplyDelta(old, delta, as_bytes, expected_hash) ==
    IF as_bytes THEN ApplyDeltaLegacy(old, delta, expected_hash)
    ELSE ApplyDeltaStreaming(old, delta, expected_hash)

\* ------------------------------------------------------------------
\* apply_delta on deltas put together from a header and a few pieces

\* a run of n bytes "A", the content of the old files and of literal data
Fill(n) == IF n = 0 THEN <<>> ELSE <<<<65, n>>>>

\* the pieces of a delta body, by name: whole instructions at and around the
\* two size limits, an unknown opcode, and instructions cut short
PieceBytes ==
    [end          |-> BytesOf(<<255>>),
     bad_op       |-> BytesOf(<<3>>),
     copy_0_4096  |-> BytesOf(<<1, 0, 128, 32>>),
     copy_0_4097  |-> BytesOf(<<1, 0, 129, 32>>),
     copy_1_4096  |-> BytesOf(<<1, 1, 128, 32>>),
     new_1        |-> BytesOf(<<2, 1, 65>>),
     new_2048     |-> BCat(BytesOf(<<2, 128, 16>>), Fill(2048)),
     new_2049     |-> BCat(BytesOf(<<2, 129, 16>>), Fill(2049)),
     cut_opcode   |-> BytesOf(<<1>>),
     cut_varint   |-> BytesOf(<<1, 0, 128>>),
     cut_literal  |-> BytesOf(<<2, 2, 65>>),
     long_varint  |-> BytesOf(<<1, 128, 128, 128, 128, 128, 0, 0>>)]

Pieces == DOMAIN PieceBytes

HeaderBytes ==
    [ok          |-> BCat(DELTA_MAGIC, BytesOf(<<DELTA_VERSION>>)),
     bad_magic   |-> BCat(BytesOf(<<79, 84, 65, 68, 69, 76, 84, 66>>), BytesOf(<<DELTA_VERSION>>)),
     bad_version |-> BCat(DELTA_MAGIC, BytesOf(<<2>>)),
     no_version  |-> DELTA_MAGIC,
     empty       |-> <<>>]

\* the delta of an input: its header followed by its pieces
RECURSIVE BodyBytes(_)
BodyBytes(body) ==
    IF body = <<>> THEN <<>> ELSE BCat(PieceBytes[body[1]], BodyBytes(Tail(body)))

DeltaBytes(in) == BCat(HeaderBytes[in.header], BodyBytes(in.body))

DeltaInputs ==
    LET Bodies == UNION {[1..n -> Pieces] : n \in 0..MaxPieces}
        Olds == {Fill(4096), Fill(10)}
        Expected == {None, Sha256(Fill(4096)), Sha256(<<>>)}
    IN  [header : {"ok"}, body : Bodies, old : Olds, expected_hash : Expected]
        \cup [header : DOMAIN HeaderBytes \ {"ok"}, body : {<<>>, <<"end">>},
              old : Olds, expected_hash : {None}]

InitDelta ==
    /\ cfg \in {c \in Configs : c.allow = {} /\ c.delete_patterns = {}}
    /\ live = EmptyDir
    /\ stage = EmptyTree
    /\ backup = EmptyTree
    /\ version = None
    /\ pc = "idle"
    /\ outcome = "none"
    /\ InitRest
    /\ upd = NoUpd
    /\ input \in DeltaInputs
    /\ result = None

\* the same old file and delta applied once as bytes and once from a file
CallApplyDelta ==
    /\ result = None
    /\ result' = [as_bytes |-> ApplyDelta(input.old, DeltaBytes(input), TRUE,
                                          input.expected_hash),
                  as_path  |-> ApplyDelta(input.old, DeltaBytes(input), FALSE,
                                          input.expected_hash)]
    /\ UNCHANGED <<boot0, input, env, fs, task, outcome, ghost, count>>

NextDelta == CallApplyDelta

SpecDelta == InitDelta /\ [][NextDelta]_vars

\* ------------------------------------------------------------------
\* create_delta, one pass of its main loop per step, and the round trip

\* the default of the block_size parameter of create_delta
BLOCK_SIZE == 512

CreateFiles ==
    {<<>>, Fill(1), Fill(BLOCK_SIZE), Fill(MAX_COPY_SIZE), Fill(MAX_COPY_SIZE + 1),
     <<<<66, MAX_INSERT_SIZE + 1>>>>, <<<<65, BLOCK_SIZE>>, <<66, 3>>>>}

\* the locals of create_delta: delta starts as magic and version
NoCreate ==
    [new_pos |-> 0, pending_insert |-> <<>>,
     delta |-> BCat(DELTA_MAGIC, BytesOf(<<DELTA_VERSION>>)), applied |-> None]

InitCreate ==
    /\ cfg \in {c \in Configs : c.allow = {} /\ c.delete_patterns = {}}
    /\ live = EmptyDir
    /\ stage = EmptyTree
    /\ backup = EmptyTree
    /\ version = None
    /\ pc = "idle"
    /\ outcome = "none"
    /\ InitRest
    /\ upd = NoUpd
    /\ input \in [old : CreateFiles, new : CreateFiles]
    /\ result = NoCreate

\* flush_insert: NEW_DATA, the length, the pending bytes
FlushInsert(delta, pending_insert) ==
    IF pending_insert = <<>> THEN delta
    ELSE BCat(BCat(BCat(delta, BytesOf(<<OP_NEW_DATA>>)), WriteVarint(BLen(pending_insert))),
              pending_insert)

\* the starts of the blocks of the old file that equal the block of the new
\* file at new_pos; old_blocks is keyed by the first 8 bytes of the block's
\* SHA-256, taken here to differ for blocks that differ
MatchingBlocks ==
    IF result.new_pos + BLOCK_SIZE > BLen(input.new) \/ input.old = <<>> THEN {}
    ELSE {i \in {BLOCK_SIZE * j : j \in 0..((BLen(input.old) - 1) \div BLOCK_SIZE)} :
            BSlice(input.old, i, BLOCK_SIZE) = BSlice(input.new, result.new_pos, BLOCK_SIZE)}

\* "while ... new_data[new_pos + match_len] == old_data[old_pos + match_len]":
\* the block and the longest common continuation behind it
MatchLen(old_pos) ==
    LET RECURSIVE Common(_, _)
        Common(a, b) ==
            IF a = <<>> \/ b = <<>> THEN 0
            ELSE IF a[1][1] # b[1][1] THEN 0
            ELSE IF a[1][2] = b[1][2] THEN a[1][2] + Common(Tail(a), Tail(b))
            ELSE IF a[1][2] < b[1][2] THEN a[1][2] ELSE b[1][2]
    IN  BLOCK_SIZE
          + Common(BSlice(input.new, result.new_pos + BLOCK_SIZE, BLen(input.new)),
                   BSlice(input.old, old_pos + BLOCK_SIZE, BLen(input.old)))

\* a pass that finds the block in the old file: flush, then COPY_OLD
CreateCopy ==
    /\ result.applied = None
    /\ result.new_pos < BLen(input.new)
    /\ MatchingBlocks # {}
    /\ LET old_pos == CHOOSE i \in MatchingBlocks : \A j \in MatchingBlocks : i <= j
           match_len == MatchLen(old_pos)
       IN  result' = [result EXCEPT
                        !.delta = BCat(BCat(BCat(FlushInsert(result.delta, result.pending_insert),
                                                 BytesOf(<<OP_COPY_OLD>>)),
                                            WriteVarint(old_pos)),
                                       WriteVarint(match_len)),
                        !.pending_insert = <<>>,
                        !.new_pos = result.new_pos + match_len]
    /\ UNCHANGED <<boot0, input, env, fs, task, outcome, ghost, count>>

\* a pass without a match: one more pending byte, flushed at MAX_INSERT_SIZE
CreateInsert ==
    /\ result.applied = None
    /\ result.new_pos < BLen(input.new)
    /\ MatchingBlocks = {}
    /\ LET pending == BCat(result.pending_insert, BSlice(input.new, result.new_pos, 1))
           full == BLen(pending) >= MAX_INSERT_SIZE
       IN  result' = [result EXCEPT
                        !.delta = IF full THEN FlushInsert(result.delta, pending)
                                  ELSE result.delta,
                        !.pending_insert = IF full THEN <<>> ELSE pending,
                        !.new_pos = result.new_pos + 1]
    /\ UNCHANGED <<boot0, input, env, fs, task, outcome, ghost, count>>

\* the loop is over: flush, END; the delta is then applied to the old file,
\* as the bytes returned and as the file written to output_path
CreateEnd ==
    /\ result.applied = None
    /\ result.new_pos >= BLen(input.new)
    /\ LET delta == BCat(FlushInsert(result.delta, result.pending_insert),
                         BytesOf(<<OP_END>>))
       IN  result' = [result EXCEPT
                        !.delta = delta,
                        !.pending_insert = <<>>,
                        !.applied = [as_bytes |-> ApplyDelta(input.old, delta, TRUE, None),
                                     as_path |-> ApplyDelta(input.old, delta, FALSE, None)]]
    /\ UNCHANGED <<boot0, input, env, fs, task, outcome, ghost, count>>

NextCreate ==
    \/ CreateCopy
    \/ CreateInsert
    \/ CreateEnd

SpecCreate == InitCreate /\ [][NextCreate]_vars

\* ------------------------------------------------------------------
\* OTA.fetch_tree: the tree of a commit, as the list the API returns

\* a limit that is not configured is None, a configured one is <<n>>; the
\* response declares a Content-Length or none; tree is the number of entries
TreeInputs ==
    [max_tree_files : {None, <<1>>, <<2>>},
     max_tree_size_kb : {None, <<1>>, <<2>>},
     content_length : {None, <<1024>>, <<1025>>, <<2048>>, <<2049>>},
     tree : 0..MaxEntries]

\* return self._get_json(url)["tree"]: the parsed response, whatever the
\* configuration and the headers say
FetchTree(in) == Ok(in.tree)

InitTree ==
    /\ cfg \in {c \in Configs : c.allow = {} /\ c.delete_patterns = {}}
    /\ live = EmptyDir
    /\ stage = EmptyTree
    /\ backup = EmptyTree
    /\ version = None
    /\ pc = "idle"
    /\ outcome = "none"
    /\ InitRest
    /\ upd = NoUpd
    /\ input \in TreeInputs
    /\ result = None

CallFetchTree ==
    /\ result = None
    /\ result' = FetchTree(input)
    /\ UNCHANGED <<boot0, input, env, fs, task, outcome, ghost, count>>

NextTree == CallFetchTree

SpecTree == InitTree /\ [][NextTree]_vars

\* ------------------------------------------------------------------
\* OTA.stream_and_verify_git with OTA._try_delta_update: staging one tree
\* entry, by a delta against the live file or by its raw blob
\*
\* The entry's blob is "n"; "x" stands for any other complete content and
\* "part" for a file that was opened and not completely written.

\* the device and the stage directory at the call: whether the transport or
\* the configuration prefers deltas, whether the live file exists, whether
\* the directory of the stage path exists, whether delta.py is installed,
\* and what stage_dir holds at the entry's stage path
StreamInputs ==
    [prefer : BOOLEAN, old : BOOLEAN, dir : BOOLEAN, module : BOOLEAN,
     final : {Absent, "n", "x"}]

\* the position in the call, the three files under stage_dir (the stage
\* path, and the same with ".tmp" and ".delta"), the requests issued, what
\* apply_delta did, and how the call ended
NoStream ==
    [at |-> "start", final |-> Absent, tmp |-> Absent, delta |-> Absent,
     requests |-> <<>>, applied |-> "", ended |-> ""]

InitStream ==
    /\ cfg \in {c \in Configs : c.allow = {} /\ c.delete_patterns = {}}
    /\ live = EmptyDir
    /\ stage = EmptyTree
    /\ backup = EmptyTree
    /\ version = None
    /\ pc = "idle"
    /\ outcome = "none"
    /\ InitRest
    /\ upd = NoUpd
    /\ input \in StreamInputs
    /\ result = [NoStream EXCEPT !.final = input.final]

\* the stage path already holds the blob: return without any request
StreamExisting ==
    /\ result.at = "start"
    /\ result' = IF result.final = "n"
                   THEN [result EXCEPT !.at = "done", !.ended = "returned"]
                   ELSE [result EXCEPT !.at = "try_delta"]
    /\ UNCHANGED <<boot0, input, env, fs, task, outcome, ghost, count>>

\* _try_delta_update returns False before any request: deltas are not
\* preferred, or there is no live file to apply one to
DeltaNotTried ==
    /\ result.at = "try_delta"
    /\ ~input.prefer \/ ~input.old
    /\ result' = [result EXCEPT !.at = "raw"]
    /\ UNCHANGED <<boot0, input, env, fs, task, outcome, ghost, count>>

\* self._get(delta_url, raw=True): a response, or an exception when there is
\* no artifact or the request fails
DeltaGet(ok) ==
    /\ result.at = "try_delta"
    /\ input.prefer /\ input.old
    /\ result' = [result EXCEPT
                    !.requests = Append(result.requests, "delta"),
                    !.at = IF ok THEN "delta_download" ELSE "delta_except"]
    /\ UNCHANGED <<boot0, input, env, fs, task, outcome, ghost, count>>

\* open(delta_path, "wb") and the chunk loop; no directory is created for
\* delta_path, so the open raises when the stage path's directory is missing
DeltaDownload(complete) ==
    /\ result.at = "delta_download"
    /\ result' = IF ~input.dir
                   THEN [result EXCEPT !.at = "delta_except"]
                   ELSE IF complete
                          THEN [result EXCEPT !.delta = "d", !.at = "delta_import"]
                          ELSE [result EXCEPT !.delta = "part", !.at = "delta_except"]
    /\ UNCHANGED <<boot0, input, env, fs, task, outcome, ghost, count>>

\* "from delta import apply_delta"; on ImportError "return False" leaves the
\* try block without passing through its except clause
DeltaImport ==
    /\ result.at = "delta_import"
    /\ result' = [result EXCEPT !.at = IF input.module THEN "delta_apply" ELSE "raw"]
    /\ UNCHANGED <<boot0, input, env, fs, task, outcome, ghost, count>>

\* apply_delta(old_file, delta bytes, output_path): DeltaError (or OSError)
\* with the output file as far as it was written, or a complete output
DeltaApply(res) ==
    /\ result.at = "delta_apply"
    /\ result' = IF res = "DeltaError"
                   THEN [result EXCEPT !.tmp = "part", !.applied = res,
                                       !.at = "delta_except"]
                   ELSE [result EXCEPT !.tmp = res, !.applied = res,
                                       !.at = "delta_verify"]
    /\ UNCHANGED <<boot0, input, env, fs, task, outcome, ghost, count>>

\* git_blob_sha1_stream of the output against entry["sha"]
DeltaVerify ==
    /\ result.at = "delta_verify"
    /\ result' = [result EXCEPT
                    !.at = IF result.tmp = "n" THEN "delta_promote" ELSE "delta_except"]
    /\ UNCHANGED <<boot0, input, env, fs, task, outcome, ghost, count>>

\* os.remove(final_), os.rename(output_path, final_), os.remove(delta_path),
\* return True: stream_and_verify_git returns
DeltaPromote ==
    /\ result.at = "delta_promote"
    /\ result' = [result EXCEPT !.final = result.tmp, !.tmp = Absent, !.delta = Absent,
                                !.at = "done", !.ended = "returned"]
    /\ UNCHANGED <<boot0, input, env, fs, task, outcome, ghost, count>>

\* "except Exception": remove the ".delta" and ".tmp" files, return False
DeltaExcept ==
    /\ result.at = "delta_except"
    /\ result' = [result EXCEPT !.tmp = Absent, !.delta = Absent, !.at = "raw"]
    /\ UNCHANGED <<boot0, input, env, fs, task, outcome, ghost, count>>

\* self._get(url, raw=True) for the blob; its exception leaves the call
RawGet(ok) ==
    /\ result.at = "raw"
    /\ result' = IF ok
                   THEN [result EXCEPT !.requests = Append(result.requests, "blob"),
                                       !.at = "raw_download"]
                   ELSE [result EXCEPT !.requests = Append(result.requests, "blob"),
                                       !.at = "done", !.ended = "raised"]
    /\ UNCHANGED <<boot0, input, env, fs, task, outcome, ghost, count>>

\* ensure_dirs, open(tmp, "wb") and the chunk loop: the stream delivers the
\* blob, other bytes, or breaks; a break raises and the finally clause
\* removes the ".tmp" file
RawDownload(got) ==
    /\ result.at = "raw_download"
    /\ result' = IF got = "fail"
                   THEN [result EXCEPT !.tmp = Absent, !.at = "done", !.ended = "raised"]
                   ELSE [result EXCEPT !.tmp = got, !.at = "raw_verify"]
    /\ UNCHANGED <<boot0, input, env, fs, task, outcome, ghost, count>>

\* the digest test, then os.remove(final_), os.rename(tmp, final_); a wrong
\* digest raises and the finally clause removes the ".tmp" file
RawVerify ==
    /\ result.at = "raw_verify"
    /\ result' = IF result.tmp = "n"
                   THEN [result EXCEPT !.final = "n", !.tmp = Absent,
                                       !.at = "done", !.ended = "returned"]
                   ELSE [result EXCEPT !.tmp = Absent, !.at = "done", !.ended = "raised"]
    /\ UNCHANGED <<boot0, input, env, fs, task, outcome, ghost, count>>

NextStream ==
    \/ StreamExisting
    \/ DeltaNotTried
    \/ \E ok \in BOOLEAN : DeltaGet(ok)
    \/ \E complete \in BOOLEAN : DeltaDownload(complete)
    \/ DeltaImport
    \/ \E res \in {"n", "x", "DeltaError"} : DeltaApply(res)
    \/ DeltaVerify
    \/ DeltaPromote
    \/ DeltaExcept
    \/ \E ok \in BOOLEAN : RawGet(ok)
    \/ \E got \in {"n", "x", "fail"} : RawDownload(got)
    \/ RawVerify

SpecStream == InitStream /\ [][NextStream]_vars

\* ------------------------------------------------------------------
\* OTA._check_basic_resources: the chunk size adapted to the free memory

\* int(cfg["chunk"]) and the value of _mem_free(), around the limits of the
\* adaptation
ChunkInputs ==
    [chunk : {1, 100, 255, 256, 257, 1024, 4095, 4096, 4097, 8192},
     free_mem : {0, 3, 400, 1020, 1023, 1024, 1027, 1028, 4096, 16383, 16384,
                 16388, 100000}]

\* a chunk size that takes half of the free memory
AdaptChunk_half(chunk, free_mem) ==
    LET Min(a, b) == IF a < b THEN a ELSE b
        Max(a, b) == IF a > b THEN a ELSE b
    IN  Max(256, Min(Min(chunk, free_mem \div 2), 4096))

\* self.chunk = max(256, min(self.chunk, free_mem // 4, 4096))
AdaptChunk(chunk, free_mem) ==
    LET Min(a, b) == IF a < b THEN a ELSE b
        Max(a, b) == IF a > b THEN a ELSE b
    IN  Max(256, Min(Min(chunk, free_mem \div 4), 4096))

InitChunk ==
    /\ cfg \in {c \in Configs : c.allow = {} /\ c.delete_patterns = {}}
    /\ live = EmptyDir
    /\ stage = EmptyTree
    /\ backup = EmptyTree
    /\ version = None
    /\ pc = "idle"
    /\ outcome = "none"
    /\ InitRest
    /\ upd = NoUpd
    /\ input \in ChunkInputs
    /\ result = None

\* _check_basic_resources with free_mem known: the new self.chunk
CallCheckBasicResources ==
    /\ result = None
    /\ result' = Ok(AdaptChunk(input.chunk, input.free_mem))
    /\ UNCHANGED <<boot0, input, env, fs, task, outcome, ghost, count>>

NextChunk == CallCheckBasicResources

SpecChunk == InitChunk /\ [][NextChunk]_vars

\* ------------------------------------------------------------------
\* Properties of the swap and of boot recovery

\* log entries of the finished or running call
Entries == {applied[i] : i \in 1..Len(applied)}
\* files the swap replaced: moved to backup_dir before a promotion
Replaced == {p \in Paths : <<p, p>> \in Entries}
\* files the swap created: promoted to a path where no file existed
Created == {p \in promoted : <<p, None>> \in Entries}
\* files the swap moved away for `deletes` or delete_patterns
MovedAway == {p \in Paths : <<None, p>> \in Entries}

Raised == pc = "idle" /\ outcome = "raised"
Returned == pc = "idle" /\ outcome = "returned"
Recovered == pc = "idle" /\ outcome = "recovered"

\* C1: after a power loss inside stage_and_swap before the record was
\* written, boot recovery leaves the live tree equal to the pre-swap tree.
\* Stated for runs in which no filesystem call failed.
C1_RecoveryRestoresPreSwapTree ==
    (Recovered /\ crashAt = "pre" /\ nfault = 0 /\ version # NewRecord) => live = pre

\* C2: after a power loss at or after the record write, boot recovery
\* leaves every promoted file at its live path with its new content.
\* Stated for swaps without deletes and without delete_patterns.
C2_RecoveryKeepsCommittedFiles ==
    ( /\ Recovered /\ crashAt = "post" /\ nfault = 0 /\ hist.recWritten
      /\ args.deletes = {} /\ cfg.delete_patterns = {} )
    => \A p \in promoted : live[p] = preStage[p]

\* C3: when stage_and_swap raises, every live file the swap had replaced
\* holds its pre-swap content again.  Stated for runs whose rollback steps
\* did not fail and for calls whose `deletes` names no staged file.
C3_RollbackRestoresReplaced ==
    (Raised /\ nfault = 0 /\ args.deletes \cap Files(preStage) = {})
    => \A p \in Replaced : live[p] = pre[p]

\* C4: when stage_and_swap raises, every file the swap had newly created
\* is gone from the live tree.  Stated for calls without `deletes`.
C4_RollbackRemovesCreated ==
    (Raised /\ nfault = 0 /\ args.deletes = {})
    => \A p \in Created : live[p] = Absent

\* C5: when stage_and_swap raises, every file moved to backup_dir for
\* `deletes` or delete_patterns is back at its live path with its original
\* content.  Stated for files this swap did not also promote.
C5_RollbackRestoresDeleted ==
    (Raised /\ nfault = 0) => \A p \in MovedAway \ promoted : live[p] = pre[p]

C7_ReturnInstallsUpdate ==
    (Returned /\ args.deletes \cap Files(preStage) = {}) =>
        /\ \A p \in Files(preStage) : IsPermitted(cfg, p) => live[p] = preStage[p]
        /\ \A p \in args.deletes : IsPermitted(cfg, p) => live[p] = Absent
        /\ version = NewRecord

C10_PromotedIsVerified ==
    ( /\ Returned /\ upd.n > 0
      /\ \A p \in Paths : upd.target.check[p] = "sha" )
    => \A p \in promoted :
          /\ upd.target.files[p] # Absent
          /\ Sha256(preStage[p]) = Sha256(upd.target.files[p])

\* C14: once boot recovery has completed, and once a stage_and_swap call has
\* returned or raised, stage_dir and backup_dir hold no entry at all, neither
\* a file nor a directory.
C14_DirsEmptyBetweenUpdates ==
    (Returned \/ Raised \/ Recovered) => (stage = EmptyTree /\ backup = EmptyTree)

C16_NormalizeRejectsExactly ==
    result # None =>
        LET rel == input[2]
            n == Len(rel)
            starts(i) == i = 1 \/ rel[i - 1] = "/"
            ends(i) == i = n \/ rel[i + 1] = "/"
            empty == n = 0 \/ rel[1] = "/" \/ rel[n] = "/"
                       \/ \E i \in 1..(n - 1) : rel[i] = "/" /\ rel[i + 1] = "/"
            dot == \E i \in 1..n : rel[i] = "." /\ starts(i) /\ ends(i)
            dotdot == \E i \in 1..(n - 1) :
                         rel[i] = "." /\ rel[i + 1] = "." /\ starts(i) /\ ends(i + 1)
            bad == empty \/ dot \/ dotdot
            dirname == CASE input[1] = "_stage_path" -> StageDirName \o <<"/">>
                         [] input[1] = "_backup_path" -> BackupDirName \o <<"/">>
                         [] OTHER -> <<>>
        IN  IF bad THEN result = Raise ELSE result = Ok(dirname \o rel)

\* a nested path with a hidden file name is accepted by _stage_path
C16_Witness ==
    /\ input = <<"_stage_path", <<"x", "/", ".", "x">>>>
    /\ result = Ok(<<".", "s", "/", "x", "/", ".", "x">>)

\* C17: no step of stage_and_swap or of boot recovery changes what a live
\* path holds (rename to or from it, removal, creation) unless the path is
\* permitted: there is no allow list or the path equals an allow entry or
\* lies under one, and it neither equals an ignore entry nor lies under one.
\* version.json, ota_error.json and their .tmp files are not application
\* paths.
C17_OnlyPermittedLivePathsTouched ==
    [][\A p \in Paths :
          ~ ( /\ \/ cfg.allow = {}
                 \/ p \in cfg.allow
                 \/ \E a \in cfg.allow : StartsWithDir(p, a)
              /\ p \notin cfg.ignore
              /\ ~ \E i \in cfg.ignore : StartsWithDir(p, i) )
          => live'[p] = live[p]]_vars

\* a call returned that found an ignored file in stage_dir next to a
\* permitted one: the permitted one is installed, the ignored path is as
\* before
C17_Witness ==
    /\ Returned
    /\ <<"lib", "b">> \in cfg.ignore
    /\ preStage[<<"lib", "b">>] = "n" /\ preStage[<<"a">>] = "n"
    /\ pre[<<"lib", "b">>] = "o" /\ pre[<<"a">>] = "o"
    /\ live[<<"lib", "b">>] = "o" /\ live[<<"a">>] = "n"

\* C11: inside the staging loop the file at a stage path changes only by
\* the rename of that path's .tmp file, which then holds all the bytes of
\* the response, flushed and fsynced, of the declared size and with the
\* listed digest (blob SHA-1 in tree mode, SHA-256 or CRC-32 in manifest
\* mode); a download that leaves the loop by an error has removed the .tmp
\* file.
C11_RenameOnlyAfterVerified ==
    [][(pc \in StagingPcs) =>
       ( /\ \A p \in Paths :
               stage'[p] # stage[p] =>
                  LET want == upd.target.files[p]
                  IN  /\ p = upd.dl.path
                      /\ stage'[p] = upd.dl.got
                      /\ upd.dl.tmp = upd.dl.got
                      /\ upd.dl.synced
                      /\ Size(upd.dl.got) = Size(want)
                      /\ IF upd.target.mode = "tag"
                           THEN \/ Sha256(upd.dl.got) = Sha256(want)
                                \/ Crc32(upd.dl.got) = Crc32(want)
                           ELSE BlobSha1(upd.dl.got) = BlobSha1(want)
         /\ pc' = "idle" => (outcome' = "staging_failed" /\ upd'.dl.tmp = Absent) )]_vars

\* C12: no step of the staging loop changes a live file or the record, and
\* when the loop is left by a failure stage_dir is empty.
C12_StagingFailureLeavesNothing ==
    [][(pc \in StagingPcs) =>
       ( /\ live' = live /\ version' = version /\ vtmp' = vtmp
         /\ (pc' = "idle" /\ outcome' = "staging_failed") => stage' = EmptyTree )]_vars

\* C15: a manifest-mode call on a device with manifest_key whose manifest
\* does not carry the HMAC of its canonical form under that key ends in the
\* step that begins it, raising, with no file of the live tree, stage_dir or
\* backup_dir and no record changed; a call on a device without manifest_key
\* never ends on the signature, whatever the manifest carries.
C15_BadSignatureStopsUpdate ==
    [][upd'.n = upd.n + 1 =>
       ( /\ ( /\ upd'.target.mode = "tag"
              /\ upd.key # NoKey
              /\ upd'.sig # Hmac(upd.key, Canonical(upd'.target)) )
            => /\ pc' = "idle" /\ outcome' = "bad_signature"
               /\ live' = live /\ stage' = stage /\ backup' = backup
               /\ version' = version /\ vtmp' = vtmp
         /\ upd.key = NoKey => outcome' # "bad_signature" )]_vars

\* a manifest signed under another secret was refused
C15_Witness ==
    /\ pc = "idle" /\ outcome = "bad_signature"
    /\ upd.key = "k"
    /\ upd.sig = Hmac("x", Canonical(upd.target))

\* C18: in either mode a request for an artifact is only made when free
\* storage is at least twice the sum of all candidate sizes and every path
\* of the listing passes the path guard.
C18_GatesBeforeFirstFetch ==
    pc \in FetchPcs =>
        /\ upd.free >= 2 * Sum(SizesOf(upd.target, ListingOrder))
        /\ ~upd.target.invalid

\* C20: a call that finds a record whose commit is the target's commit, with
\* force not set, ends in the step that begins it with "no change" and
\* nothing modified, in tree mode and in manifest mode (a manifest refused
\* for its signature aside).
C20_IdentityGate ==
    [][( /\ upd'.n = upd.n + 1
         /\ upd'.target # NoTarget /\ ~upd'.target.invalid
         /\ ~upd.force
         /\ version # None /\ version # Partial
         /\ version[2] = upd'.target.commit )
       => ( /\ pc' = "idle" /\ outcome' \in {"nochange", "bad_signature"}
            /\ live' = live /\ stage' = stage /\ backup' = backup
            /\ version' = version /\ vtmp' = vtmp )]_vars

\* C19: with required the sum of the candidate sizes, the tree-mode call
\* goes on to staging when free storage is 2 * required and returns False
\* when it is 2 * required - 1 or less.
C19_StorageBoundary ==
    (result # None /\ input[2] # NoFree) =>
        LET required == Sum(input[1])
            free == input[2]
        IN  /\ free = 2 * required => result = Ok(TRUE)
            /\ free < 2 * required => result = Ok(FALSE)

\* C19 as the code has it: the call goes on to staging exactly when free
\* storage is unknown or at least the larger of 2 * required and
\* min_free_storage.
C19_StorageBoundaryWithThreshold ==
    result # None =>
        LET required == Sum(input[1])
            free == input[2]
            need == IF 2 * required > input[3] THEN 2 * required ELSE input[3]
        IN  result = Ok(free = NoFree \/ free >= need)

\* two candidates of 2 and 1 bytes, 6 bytes free, threshold 5: staging
\* follows
C19_Witness ==
    /\ input = <<<<2, 1>>, 6, 5>>
    /\ result = Ok(TRUE)

\* C28: a file the delete_patterns sweep moves out of the live tree matches
\* a pattern, was not in stage_dir when the swap began, was not installed
\* by this swap, and its place in backup_dir was free.
C28_SweepSparesStagedSet ==
    [][(pc = "sweep") =>
         \A p \in Paths :
            (live[p] # Absent /\ live'[p] = Absent) =>
               ( /\ \E d \in cfg.delete_patterns : p = d \/ StartsWithDir(p, d)
                 /\ preStage[p] = Absent
                 /\ p \notin promoted
                 /\ backup[p] = Absent )]_vars

C30_RollbackWritesCause ==
    Raised => (errfile # <<>> /\ version = preVersion)

\* C27: no request is issued for a candidate whose live file already has the
\* target identity (blob SHA-1 of the tree entry, SHA-256 of the manifest
\* entry), nothing is put at its stage path, and the promotion loop of the
\* swap does not write that live path.
C27_IdentitySkip ==
    [][\A p \in Paths :
          ( /\ pc # "idle"
            /\ upd.target # NoTarget
            /\ live[p] # Absent
            /\ upd.target.files[p] # Absent
            /\ IF upd.target.mode = "tag"
                 THEN /\ upd.target.check[p] = "sha"
                      /\ Sha256(live[p]) = Sha256(upd.target.files[p])
                 ELSE /\ Size(live[p]) = Size(upd.target.files[p])
                      /\ BlobSha1(live[p]) = BlobSha1(upd.target.files[p]) )
          => /\ ~(pc = "staging" /\ pc' = "dl_open" /\ upd'.dl.path = p)
             /\ pc \in StagingPcs => stage'[p] = stage[p]
             /\ pc \in {"promote", "promote_mv"} => live'[p] = live[p]]_vars

C21_WitnessRolledBack ==
    /\ pc = "idle" /\ outcome = "raised"
    /\ upd.n > 0 /\ upd.reset = NoReset /\ ~upd.hook

\* C22: with http_retries = n, backoff_sec = b, max_backoff_sec = m a call
\* of _get issues at most n requests; it returns a response only if that
\* response's status is below 400 and every request before it failed; every
\* status of 400 or more and every transport exception is a failed attempt;
\* the k-th failed attempt (from 0) is followed by a sleep of min(b * 2^k, m)
\* seconds exactly when it is not the n-th attempt; a call that raises has
\* made n failed attempts and raises the error of the last one.
C22_GetRetries ==
    /\ result.requests <= input.n
    /\ result.requests = Len(result.failed) + (IF result.returned # None THEN 1 ELSE 0)
    /\ result.returned # None =>
          result.returned.kind = "status" /\ result.returned.code < 400
    /\ \A k \in 1..Len(result.failed) :
          result.failed[k].kind = "exception" \/ result.failed[k].code >= 400
    /\ Len(result.slept) =
          IF Len(result.failed) = input.n /\ input.n > 0
            THEN input.n - 1 ELSE Len(result.failed)
    /\ \A k \in 1..Len(result.slept) :
          /\ result.slept[k] <= input.b * (2 ^ (k - 1))
          /\ result.slept[k] <= input.m
          /\ result.slept[k] = input.b * (2 ^ (k - 1)) \/ result.slept[k] = input.m
    /\ result.raised # None =>
          /\ Len(result.failed) = input.n
          /\ input.n > 0
          /\ result.raised = result.failed[input.n]

\* the same for the calls with http_retries of at least 1
C22_GetRetriesFromOne == (input.n >= 1) => C22_GetRetries

\* C24: the same old file and the same delta give the same result as bytes
\* and as a file path: both raise DeltaError, or both succeed with the same
\* output bytes and the same hash.
C24_ModesAgree ==
    result # None =>
       /\ result.as_bytes.status = result.as_path.status
       /\ result.as_bytes.status = "ok" =>
             /\ result.as_bytes.out = result.as_path.out
             /\ result.as_bytes.hash = result.as_path.hash

\* what the pieces of a delta must write, told from their names alone:
\* the pieces before position k are whole instructions within the limits
\* that read inside the old file
SoundPrefix(k) ==
    \A i \in 1..(k - 1) :
       \/ input.body[i] \in {"new_1", "new_2048"}
       \/ input.body[i] = "copy_0_4096" /\ input.old = Fill(4096)

\* ... and the number of bytes they write, all of them "A"
RECURSIVE WrittenBy(_)
WrittenBy(k) ==
    IF k = 0 THEN 0
    ELSE WrittenBy(k - 1) + (CASE input.body[k] = "new_1" -> 1
                               [] input.body[k] = "new_2048" -> 2048
                               [] input.body[k] = "copy_0_4096" -> 4096
                               [] OTHER -> 0)

BothRaise ==
    result.as_bytes.status = "DeltaError" /\ result.as_path.status = "DeltaError"

C25_BadHeader == (result # None /\ input.header # "ok") => BothRaise

C25_UnknownOpcode ==
    (result # None /\ input.header = "ok") =>
       \A k \in 1..Len(input.body) :
          (SoundPrefix(k) /\ input.body[k] = "bad_op") => BothRaise

C25_CopyBeyondOld ==
    (result # None /\ input.header = "ok") =>
       \A k \in 1..Len(input.body) :
          ( /\ SoundPrefix(k)
            /\ \/ input.body[k] = "copy_1_4096"
               \/ input.body[k] = "copy_0_4096" /\ input.old = Fill(10) )
          => BothRaise

C25_HashMismatch ==
    (result # None /\ input.header = "ok") =>
       \A k \in 1..Len(input.body) :
          ( /\ SoundPrefix(k)
            /\ input.body[k] = "end"
            /\ input.expected_hash # None
            /\ input.expected_hash # Sha256(Fill(WrittenBy(k - 1))) )
          => BothRaise

C25_EndsBeforeEnd ==
    (result # None /\ input.header = "ok") =>
       LET n == Len(input.body)
       IN  ( \/ SoundPrefix(n + 1)
             \/ /\ n > 0
                /\ SoundPrefix(n)
                /\ input.body[n] \in {"cut_opcode", "cut_varint", "cut_literal"} )
           => BothRaise

\* C25: apply_delta raises DeltaError, for a delta given as bytes and for
\* one given as a file, when the magic or the version is wrong, when an
\* opcode is none of 0x01, 0x02, 0xFF, when the delta ends before an END
\* instruction (also inside a varint or inside literal data), when a copy
\* reads beyond the end of the old file, and when the output's SHA-256
\* differs from the expected hash.
C25_MalformedDeltaRaises ==
    /\ C25_BadHeader
    /\ C25_UnknownOpcode
    /\ C25_CopyBeyondOld
    /\ C25_HashMismatch
    /\ C25_EndsBeforeEnd

\* C26: a COPY_OLD of 4096 bytes and a NEW_DATA of 2048 bytes are carried
\* out; a COPY_OLD of 4097 bytes and a NEW_DATA of 2049 bytes end the call
\* with DeltaError, the output file holding what the instructions before
\* them wrote and no byte more. In both modes.
C26_SizeLimits ==
    (result # None /\ input.header = "ok") =>
       \A k \in 1..Len(input.body) :
          SoundPrefix(k) =>
            /\ input.body[k] \in {"copy_0_4097", "new_2049"} =>
                 /\ BothRaise
                 /\ result.as_bytes.out = Fill(WrittenBy(k - 1))
                 /\ result.as_path.out = Fill(WrittenBy(k - 1))
            /\ ( /\ SoundPrefix(k + 1)
                 /\ input.body[k] \in {"copy_0_4096", "new_2048"}
                 /\ k < Len(input.body)
                 /\ input.body[k + 1] = "end"
                 /\ input.expected_hash = None ) =>
                 /\ result.as_bytes = DeltaResult("ok", Fill(WrittenBy(k)))
                 /\ result.as_path = DeltaResult("ok", Fill(WrittenBy(k)))

\* a literal byte was written, then a copy of 4097 bytes was refused
C26_Witness ==
    /\ result # None
    /\ input.header = "ok"
    /\ input.body = <<"new_1", "copy_0_4097", "end">>
    /\ input.old = Fill(4096)
    /\ BothRaise
    /\ result.as_bytes.out = Fill(1)

\* C23: the delta that create_delta makes from an old and a new file,
\* applied to the old file, gives the new file byte for byte, in both modes.
C23_RoundTrip ==
    result.applied # None =>
       /\ result.applied.as_bytes = DeltaResult("ok", input.new)
       /\ result.applied.as_path = DeltaResult("ok", input.new)

\* the steps of _startup_cleanup
BootStep ==
    \/ BootStart
    \/ \E p \in Paths : RestoreRemove(p) \/ RestoreRename(p) \/ RestoreFault(p)
    \/ RestoreDone
    \/ \E p \in Paths : BootRmBackup(p) \/ BootRmStage(p)
    \/ BootBackupDirs
    \/ BootBackupDone
    \/ BootStageDirs
    \/ BootDone

\* the permitted backup files the running construction found and did not
\* bring back to their live paths
NotRestored ==
    {q \in Files(boot0.backup) : IsPermitted(cfg, q) /\ live[q] # boot0.backup[q]}

C32_TreeLimits ==
    LET tooMany == /\ input.max_tree_files # None
                   /\ input.tree > input.max_tree_files[1]
        tooLarge == /\ input.max_tree_size_kb # None
                    /\ input.content_length # None
                    /\ input.content_length[1] > input.max_tree_size_kb[1] * 1024
    IN  result # None =>
          result = IF tooMany \/ tooLarge THEN Raise ELSE Ok(input.tree)

\* the part of C32 the code satisfies: a tree within every configured limit
\* is returned
C32_WithinLimitsReturned ==
    ( /\ result # None
      /\ input.max_tree_files # None => input.tree <= input.max_tree_files[1]
      /\ (input.max_tree_size_kb # None /\ input.content_length # None)
           => input.content_length[1] <= input.max_tree_size_kb[1] * 1024 )
    => result = Ok(input.tree)

\* the name under which a failed undo of log entry j is collected
RbName(j) == IF applied[j][1] # None THEN applied[j][1] ELSE applied[j][2]

\* log entry j has been attempted, as far as the files and the collected
\* errors show: its backup copy is gone, or its failure is collected, or it
\* is an entry whose undo moves nothing (no backup recorded, no target)
RbAttempted(j) ==
    \/ applied[j][2] = None
    \/ applied[j][1] = None
    \/ backup[applied[j][2]] = Absent
    \/ \E k \in 1..Len(rollback_errors) : rollback_errors[k] = RbName(j)

\* the last log entry with this target, or with this backup path
LastWithTarget(t) ==
    CHOOSE i \in 1..Len(applied) :
        /\ applied[i][1] = t
        /\ \A j \in (i + 1)..Len(applied) : applied[j][1] # t
LastWithBackup(b) ==
    CHOOSE i \in 1..Len(applied) :
        /\ applied[i][2] = b
        /\ \A j \in (i + 1)..Len(applied) : applied[j][2] # b

\* C33: rollback undoes the log in reverse order of recording.  The loop
\* starts at the entry recorded last and moves one entry down at a time; a
\* rollback step that removes a live file or moves a backup copy back
\* belongs to a log entry, and every entry recorded after that one has been
\* attempted before.
C33_RollbackReverseOrder ==
    /\ [][(pc # "rollback" /\ pc' = "rollback") => rb' = Len(applied')]_vars
    /\ [][(pc = "rollback" /\ pc' = "rollback") =>
             (rb' \in {rb, rb - 1} /\ applied' = applied)]_vars
    /\ [][(pc = "rollback" /\ pc' = "rollback") =>
             \A p \in Paths :
                /\ (backup'[p] # backup[p]) =>
                      ( /\ \E i \in 1..Len(applied) : applied[i][2] = p
                        /\ \A j \in (LastWithBackup(p) + 1)..Len(applied) :
                               RbAttempted(j) )
                /\ (live'[p] # live[p]) =>
                      ( /\ \E i \in 1..Len(applied) : applied[i][1] = p
                        /\ \A j \in (LastWithTarget(p) + 1)..Len(applied) :
                               RbAttempted(j) )]_vars

\* a rollback over a log of two replaced files has put back the one recorded
\* first after the one recorded last
C33_Witness ==
    /\ pc = "rollback"
    /\ rb = 0
    /\ Len(applied) >= 2
    /\ \A i \in 1..2 : applied[i][1] # None /\ applied[i][2] # None
    /\ applied[1][1] # applied[2][1]
    /\ \A i \in 1..2 : /\ backup[applied[i][2]] = Absent
                        /\ pre[applied[i][1]] # Absent
                        /\ live[applied[i][1]] = pre[applied[i][1]]
    /\ rollback_errors = <<>>

\* the requests of the call so far
Requested(what) == \E i \in 1..Len(result.requests) : result.requests[i] = what

\* C34: when a delta attempt has failed, the raw blob fetch begins with no
\* ".delta" and no ".tmp" file of the entry in stage_dir, and only the raw
\* fetch can make the call raise; a call that returns has staged the blob
\* and left neither file behind; and when apply_delta produced the blob, the
\* call returns without a raw blob request.
C34_DeltaFallback ==
    /\ (result.at \in {"raw", "raw_download"} /\ Requested("delta"))
         => (result.delta = Absent /\ (result.at = "raw" => result.tmp = Absent))
    /\ result.ended = "raised" => Requested("blob")
    /\ result.ended = "returned"
         => (result.final = "n" /\ result.tmp = Absent /\ result.delta = Absent)
    /\ (result.at = "done" /\ result.applied = "n")
         => (result.ended = "returned" /\ ~Requested("blob"))

\* the same where delta.py is installed: every failure of the claim's list
\* (no artifact, download error, DeltaError, wrong blob hash) cleans up
C34_FallbackWithDeltaModule == input.module => C34_DeltaFallback

\* C35: the engine never runs two passes of a swap loop without a watchdog
\* feed in between: the number of passes of the promotion, deletion and
\* sweep loops that renamed a file since the last feed is never above one.
C35_FedEveryIteration == hist.unfed <= 1

\* C36 as stated: after _check_basic_resources with free memory F the chunk
\* size is between 256 and 4096 and not above F / 4.
C36_ChunkBounds ==
    result # None =>
        /\ result[2] >= 256
        /\ result[2] <= 4096
        /\ 4 * result[2] <= input.free_mem

\* C36 amended: the chunk size is between 256 and 4096 and never above the
\* configured value or F / 4, except that it is exactly 256 when the
\* configured value or F / 4 is below 256 (so for F < 1024 it is 256, above
\* F / 4).
C36_ChunkBoundsWithFloor ==
    result # None =>
        /\ result[2] >= 256
        /\ result[2] <= 4096
        /\ 4 * result[2] <= input.free_mem \/ result[2] = 256
        /\ result[2] <= input.chunk \/ result[2] = 256
        /\ (input.free_mem >= 1024 /\ input.chunk >= 256) =>
              (4 * result[2] <= input.free_mem /\ result[2] <= input.chunk)

\* free memory caps a configured chunk of 4096 at F // 4, above the floor
C36_Witness ==
    /\ result # None
    /\ input.chunk = 4096
    /\ input.free_mem = 4096
    /\ result[2] = 1024

\* the phases of a call of update_if_available, numbered against the order
\* in which the code passes through them
Phase ==
    CASE pc \in StagingPcs -> 14
      [] pc \in {"promote", "promote_mv"} -> 13
      [] pc = "deletes" -> 12
      [] pc = "sweep" -> 11
      [] pc = "ws" -> 10
      [] pc = "ws_dump" -> 9
      [] pc = "ws_rename" -> 8
      [] pc = "ws_sync" -> 7
      [] pc = "rollback" -> 6
      [] pc = "fin_stage" -> 5
      [] pc = "fin_stage_sub" -> 4
      [] pc = "fin_backup" -> 3
      [] pc = "fin_backup_sub" -> 2
      [] pc = "finalize" -> 1
      [] OTHER -> 0

\* the work left in the loop of the current phase: candidates still to
\* stage and the steps left of the running download, staged files still to
\* promote, paths still to delete or sweep, log entries still to undo, files
\* still to remove
Remaining ==
    CASE pc \in StagingPcs ->
            6 * Cardinality(upd.cands)
              + ( CASE pc = "staging" -> 5
                    [] pc = "dl_open" -> 4
                    [] pc = "dl_write" -> 3
                    [] pc = "dl_sync" -> 2
                    [] pc = "dl_verify" -> 1
                    [] OTHER -> 0 )
      [] pc = "promote" -> 2 * Cardinality(walk)
      [] pc = "promote_mv" -> 2 * Cardinality(walk) - 1
      [] pc \in {"deletes", "sweep"} -> Cardinality(walk)
      [] pc = "rollback" ->
            IF rb = 0 THEN 0
            ELSE 2 * rb + (IF RbHasBackup /\ RbHasTarget THEN 1 ELSE 0)
      [] pc \in {"fin_stage", "fin_stage_sub"} -> Cardinality(Files(stage))
      [] pc \in {"fin_backup", "fin_backup_sub"} -> Cardinality(Files(backup))
      [] OTHER -> 0

Rank == 32 * Phase + Remaining

C38_NoOriginalLost ==
    /\ []( ( /\ ncalls > 0 /\ ~hist.committed /\ ~hist.recWritten
             /\ args.deletes \cap Files(preStage) = {} /\ cfg.delete_patterns = {} ) =>
             \A p \in Paths :
                 pre[p] # Absent => (live[p] = pre[p] \/ backup[p] = pre[p]) )
    /\ [][( /\ pc \in {"fin_backup", "fin_backup_sub", "boot_backup", "boot_backup_sub"}
            /\ ~hist.committed /\ ~hist.recWritten )
          => \A p \in Paths :
                (backup[p] # Absent /\ backup'[p] = Absent) => live[p] = backup[p]]_vars

\* what a construction that runs to its end without a failed rename leaves,
\* from the trees f it found: every permitted backup is at its live path, ...
UninterruptedLive(f) ==
    [p \in Paths |->
        IF f.backup[p] # Absent /\ IsPermitted(cfg, p) THEN f.backup[p] ELSE f.live[p]]

\* ... backup_dir has gone through _rmtree once the permitted files had left it, ...
Unrestored(f) ==
    [n \in Nodes |->
        IF n \in Paths /\ IsPermitted(cfg, n) THEN Absent ELSE f.backup[n]]

\* ... and _rmtree removes every file, and the directories that were empty
\* when their level was visited
AfterRmtree(tree) ==
    [n \in Nodes |-> IF n \in Paths THEN Absent ELSE Rmdirs(tree)[n]]

\* C39: boot recovery is safe to interrupt.  When power is lost inside
\* _startup_cleanup and the next construction runs to its end (no rename
\* having failed), the live tree, stage_dir and backup_dir are what the first
\* construction would have left had it run to its end
C39_SameAsUninterrupted ==
    (Recovered /\ nfault = 0) =>
        /\ live = UninterruptedLive(boot0.first)
        /\ stage = AfterRmtree(boot0.first.stage)
        /\ backup = AfterRmtree(Unrestored(boot0.first))

\* the same for the constructions that were not cut short: the three
\* operators above give what _startup_cleanup leaves
C39_UninterruptedResult ==
    (Recovered /\ nfault = 0 /\ ncrash = 0) =>
        /\ live = UninterruptedLive(boot0.first)
        /\ stage = AfterRmtree(boot0.first.stage)
        /\ backup = AfterRmtree(Unrestored(boot0.first))

\* the same for the files alone, cut short or not: the live tree is the same
\* and no file is left under stage_dir or backup_dir
C39_SameFiles ==
    (Recovered /\ nfault = 0) =>
        /\ live = UninterruptedLive(boot0.first)
        /\ Files(stage) = {}
        /\ Files(backup) = {}

====
